---- MODULE Spec2Model ----
(***************************************************************************)
(* A model of the CiviCRM Terraform provider: the generic API v4 client,   *)
(* the response-coercion helpers and the per-resource adapters, run        *)
(* against a remote that stores what it is sent.                           *)
(***************************************************************************)
EXTENDS Integers, Sequences, FiniteSets, TLC

VARIABLES
    remote,     \* the remote system's records: entity type -> (id -> record)
    nextId,     \* the id the remote assigns to the next created record
    ret,        \* what the last client-level call returned to its caller
    created,    \* the last record a client Create returned, until it is written again
    active,     \* the entity type, resource or data source this run exercises
    hin,        \* the input of a function checked on its own: the map and key of a
                \* coercion helper, the configuration and environment of Configure
    hout,       \* what that function returned
    state,      \* the provider state of the resource or data source under test
    calls,      \* the client calls the last adapter operation issued, in order
    diag,       \* the error diagnostic the last adapter operation appended ("" if none)
    last,       \* the last adapter operation: its name, plan or config, and outcome
    cleared     \* the wire fields the last successful Update sent as null

clientVars == <<ret, created>>

helperVars == <<hin, hout>>

adapterVars == <<state, calls, diag, last, cleared>>

vars == <<remote, nextId, active, clientVars, helperVars, adapterVars>>

----------------------------------------------------------------------------
(* Bounds *)

\* the number of records the remote creates in one run
MaxId == 2

----------------------------------------------------------------------------
(* Dynamically typed values: a Go `any` as found in map[string]any.  t is   *)
(* the dynamic type, the other fields carry the payload of that type.      *)

Val(t, b, n, s, l) == [t |-> t, b |-> b, n |-> n, s |-> s, l |-> l]

Nil == Val("nil", FALSE, 0, "", <<>>)

Bool(x) == Val("bool", x, 0, "", <<>>)

Float64(x) == Val("float64", FALSE, x, "", <<>>)

Int64(x) == Val("int64", FALSE, x, "", <<>>)

Str(x) == Val("string", FALSE, 0, x, <<>>)

\* a Go []string, as the adapters put into a values map
Strings(x) == Val("[]string", FALSE, 0, "", x)

\* a decoded JSON array ([]any) of strings
List(x) == Val("[]any", FALSE, 0, "", x)

\* json.Marshal of a request value followed by json.Unmarshal into `any` on
\* the way back: integers come back as float64, []string as []any.
JSONValue(v) ==
    CASE v.t = "int64" -> Float64(v.n)
      [] v.t = "int" -> Float64(v.n)
      [] v.t = "[]string" -> List(v.l)
      [] OTHER -> v

\* a map[string]any through the same round trip
JSONMap(m) == [k \in DOMAIN m |-> JSONValue(m[k])]

\* the nil map a failed call returns
NoRecord == <<>>

----------------------------------------------------------------------------
(* Type coercion helpers *)

\* the decimal digits of the largest int64, 9223372036854775807
MaxInt64 == <<"9", "2", "2", "3", "3", "7", "2", "0", "3", "6",
              "8", "5", "4", "7", "7", "5", "8", "0", "7">>

\* a plausible slip: digits only, a leading sign is a syntax error
ParseIntUnsigned(s) ==
    LET Digit(c) == CASE c = "0" -> 0 [] c = "1" -> 1 [] c = "2" -> 2 [] c = "3" -> 3
                      [] c = "4" -> 4 [] c = "5" -> 5 [] c = "6" -> 6 [] c = "7" -> 7
                      [] c = "8" -> 8 [] c = "9" -> 9 [] OTHER -> -1
        RECURSIVE Value(_)
        Value(d) == IF d = <<>> THEN 0
                    ELSE 10 * Value(SubSeq(d, 1, Len(d) - 1)) + Digit(d[Len(d)])
    IN IF s = <<>> \/ \E i \in 1..Len(s) : Digit(s[i]) < 0 \/ Len(s) > 9
       THEN [ok |-> FALSE, id |-> Int64(0)]
       ELSE [ok |-> TRUE, id |-> Int64(Value(s))]

\* strconv.ParseInt(s, 10, 64): an optional sign, then one or more decimal
\* digits, the value within -2^63 .. 2^63 - 1. A value of more than nine
\* digits is kept as its sign and digits.
ParseInt(s) ==
    LET Digit(c) == CASE c = "0" -> 0 [] c = "1" -> 1 [] c = "2" -> 2 [] c = "3" -> 3
                      [] c = "4" -> 4 [] c = "5" -> 5 [] c = "6" -> 6 [] c = "7" -> 7
                      [] c = "8" -> 8 [] c = "9" -> 9 [] OTHER -> -1
        neg == s # <<>> /\ s[1] = "-"
        body == IF s # <<>> /\ s[1] \in {"+", "-"} THEN Tail(s) ELSE s
        RECURSIVE Strip(_)
        Strip(d) == IF Len(d) > 1 /\ d[1] = "0" THEN Strip(Tail(d)) ELSE d
        RECURSIVE Less(_, _)
        Less(a, b) == /\ a # <<>>
                      /\ \/ Digit(a[1]) < Digit(b[1])
                         \/ a[1] = b[1] /\ Less(Tail(a), Tail(b))
        RECURSIVE Value(_)
        Value(d) == IF d = <<>> THEN 0
                    ELSE 10 * Value(SubSeq(d, 1, Len(d) - 1)) + Digit(d[Len(d)])
        digits == Strip(body)
        \* the magnitude limit: 2^63 - 1, and 2^63 for a negative number
        limit == IF neg THEN SubSeq(MaxInt64, 1, 18) \o <<"8">> ELSE MaxInt64
        inRange == \/ Len(digits) < Len(limit)
                   \/ Len(digits) = Len(limit) /\ (digits = limit \/ Less(digits, limit))
    IN IF body = <<>> \/ \E i \in 1..Len(body) : Digit(body[i]) < 0
       THEN [ok |-> FALSE, id |-> Int64(0)]
       ELSE IF ~inRange THEN [ok |-> FALSE, id |-> Int64(0)]
       ELSE IF Len(digits) <= 9
       THEN [ok |-> TRUE, id |-> Int64(IF neg THEN -Value(digits) ELSE Value(digits))]
       ELSE [ok |-> TRUE, id |-> Val("int64", neg, 0, "", digits)]

\* a plausible slip: a numeric string is read as its number
GetInt64ParsingStrings(m, key) ==
    IF key \notin DOMAIN m THEN [v |-> 0, ok |-> FALSE]
    ELSE CASE m[key].t = "float64" -> [v |-> m[key].n, ok |-> TRUE]
           [] m[key].t = "string" /\ m[key].s \in {"0", "1"} ->
                [v |-> IF m[key].s = "1" THEN 1 ELSE 0, ok |-> TRUE]
           [] OTHER -> [v |-> 0, ok |-> FALSE]

\* GetInt64: (value, ok). A float64 holds its whole part, rounded toward
\* zero, in n and the digits of its fraction in l (2.5 is n = 2, l = <<"5">>),
\* and int64(val) is n. A json.Number holds its literal as a sequence of
\* characters (l) and is read with ParseInt; the decoder of doRequest never
\* produces one.
GetInt64(m, key) ==
    IF key \notin DOMAIN m THEN [v |-> 0, ok |-> FALSE]
    ELSE CASE m[key].t = "float64" -> [v |-> m[key].n, ok |-> TRUE]
           [] m[key].t = "int64" -> [v |-> m[key].n, ok |-> TRUE]
           [] m[key].t = "int" -> [v |-> m[key].n, ok |-> TRUE]
           [] m[key].t = "json.Number" ->
                [v |-> ParseInt(m[key].l).id.n, ok |-> ParseInt(m[key].l).ok]
           [] OTHER -> [v |-> 0, ok |-> FALSE]

\* GetString: (value, ok)
GetString(m, key) ==
    IF key \notin DOMAIN m THEN [v |-> "", ok |-> FALSE]
    ELSE IF m[key].t = "string" THEN [v |-> m[key].s, ok |-> TRUE]
    ELSE [v |-> "", ok |-> FALSE]

\* a plausible slip: any non-zero number taken as true
GetBoolNonZero(m, key) ==
    IF key \notin DOMAIN m THEN [v |-> FALSE, ok |-> FALSE]
    ELSE CASE m[key].t = "bool" -> [v |-> m[key].b, ok |-> TRUE]
           [] m[key].t = "float64" -> [v |-> m[key].n # 0, ok |-> TRUE]
           [] m[key].t = "int" -> [v |-> m[key].n # 0, ok |-> TRUE]
           [] m[key].t = "string" -> [v |-> m[key].s \in {"1", "true"}, ok |-> TRUE]
           [] OTHER -> [v |-> FALSE, ok |-> FALSE]

\* GetBool: (value, ok)
GetBool(m, key) ==
    IF key \notin DOMAIN m THEN [v |-> FALSE, ok |-> FALSE]
    ELSE CASE m[key].t = "bool" -> [v |-> m[key].b, ok |-> TRUE]
           [] m[key].t = "float64" -> [v |-> m[key].n = 1 /\ m[key].l = <<>>, ok |-> TRUE]
           [] m[key].t = "int" -> [v |-> m[key].n = 1, ok |-> TRUE]
           [] m[key].t = "string" -> [v |-> m[key].s \in {"1", "true"}, ok |-> TRUE]
           [] OTHER -> [v |-> FALSE, ok |-> FALSE]

----------------------------------------------------------------------------
(* The remote API v4 endpoint: what one HTTP round trip does to the remote  *)
(* records and which rows the envelope carries.                            *)

EntityTypes == {"Group", "Tag", "ContactType", "OptionValue", "OptionGroup", "ACL", "ACLEntityRole"}

\* request parameters: the JSON object placed in the "params" form field
Params(where, values) == [where |-> where, values |-> values]

\* one where clause: a 3-element filter tuple (field, operator, value)
Clause(field, value) == [field |-> field, op |-> "=", value |-> value]

\* what the transport and the remote decide for one round trip: the HTTP
\* status, whether the body parses as the envelope, the envelope's error
\* fields, and whether the remote carried out the requested write
Transport(status, parses, code, message, applied) ==
    [status |-> status, parses |-> parses, error_code |-> code,
     error_message |-> message, applied |-> applied]

\* the round trips of this model: the clean one, the clean answer of a
\* remote that did nothing, and one per failure that doRequest tells apart
\* (a write may have been carried out before the failure)
Transports ==
    { Transport(200, TRUE, 0, "", TRUE),
      Transport(200, TRUE, 0, "", FALSE),
      Transport(500, TRUE, 1, "denied", FALSE),
      Transport(200, FALSE, 0, "", TRUE),
      Transport(200, TRUE, 1, "denied", FALSE) }

RECURSIVE IdSeq(_)
\* the ids of S in ascending order
IdSeq(S) ==
    IF S = {} THEN <<>>
    ELSE LET m == CHOOSE x \in S : \A y \in S : x <= y
         IN <<m>> \o IdSeq(S \ {m})

\* whether a stored record satisfies one where clause; "option_group_id:name"
\* joins an OptionValue to the name of its option group
Matches(store, rec, clause) ==
    IF clause.field = "option_group_id:name"
    THEN /\ "option_group_id" \in DOMAIN rec
         /\ \E g \in DOMAIN store["OptionGroup"] :
                /\ rec["option_group_id"] = Float64(g)
                /\ store["OptionGroup"][g]["name"] = JSONValue(clause.value)
    ELSE /\ clause.field \in DOMAIN rec
         /\ rec[clause.field] = JSONValue(clause.value)

\* the ids of the records of an entity type that satisfy every clause
RemoteSelect(store, entity, where) ==
    {id \in DOMAIN store[entity] :
        \A i \in 1..Len(where) : Matches(store, store[entity][id], where[i])}

\* the records with the given ids, in id order
RemoteRows(store, entity, ids) ==
    [i \in 1..Cardinality(ids) |-> store[entity][IdSeq(ids)[i]]]

RemoteCreate(store, entity, id, values) ==
    [store EXCEPT ![entity] =
        (id :> (("id" :> Float64(id)) @@ JSONMap(values))) @@ store[entity]]

RemoteUpdate(store, entity, ids, values) ==
    [store EXCEPT ![entity] =
        [i \in DOMAIN store[entity] |->
            IF i \in ids
            THEN ("id" :> store[entity][i]["id"]) @@ JSONMap(values) @@ store[entity][i]
            ELSE store[entity][i]]]

RemoteDelete(store, entity, ids) ==
    [store EXCEPT ![entity] = [i \in DOMAIN store[entity] \ ids |-> store[entity][i]]]

\* One round trip: the remote's records and id counter afterwards, and the
\* HTTP response (status and envelope) the client reads.
Exchange(store, nid, entity, action, params, h) ==
    LET ids == RemoteSelect(store, entity, params.where)
        after ==
            CASE action = "create" /\ h.applied ->
                    RemoteCreate(store, entity, nid, params.values)
              [] action = "update" /\ h.applied ->
                    RemoteUpdate(store, entity, ids, params.values)
              [] action = "delete" /\ h.applied ->
                    RemoteDelete(store, entity, ids)
              [] OTHER -> store
        rows ==
            CASE action = "create" ->
                    IF h.applied THEN <<after[entity][nid]>> ELSE <<>>
              [] action = "update" ->
                    IF h.applied THEN RemoteRows(after, entity, ids) ELSE <<>>
              [] action = "delete" ->
                    IF h.applied
                    THEN [i \in 1..Cardinality(ids) |-> ("id" :> Float64(IdSeq(ids)[i]))]
                    ELSE <<>>
              [] OTHER -> RemoteRows(store, entity, ids)
    IN [remote |-> after,
        nextId |-> IF action = "create" /\ h.applied THEN nid + 1 ELSE nid,
        call |-> [entity |-> entity, action |-> action, params |-> params],
        status |-> h.status,
        parses |-> h.parses,
        envelope |-> [error_code |-> h.error_code,
                      error_message |-> h.error_message,
                      values |-> rows]]

----------------------------------------------------------------------------
(* The API client *)

ErrHTTP == "API request failed with status"
ErrParse == "failed to parse response"
ErrAPI == "API error"
ErrNoCreate == "no values returned from create operation"
ErrNoUpdate == "no values returned from update operation"
ErrNotFound == "not found"

\* a plausible slip: the envelope's error fields are looked at before the status
doRequestEnvelopeFirst(x) ==
    IF x.parses /\ (x.envelope.error_code # 0 \/ x.envelope.error_message # "")
    THEN [ok |-> FALSE, err |-> ErrAPI, values |-> <<>>]
    ELSE IF x.status < 200 \/ x.status >= 300
    THEN [ok |-> FALSE, err |-> ErrHTTP, values |-> <<>>]
    ELSE IF ~x.parses
    THEN [ok |-> FALSE, err |-> ErrParse, values |-> <<>>]
    ELSE [ok |-> TRUE, err |-> "", values |-> x.envelope.values]

\* doRequest, from the HTTP response on: (response, err)
doRequest(x) ==
    IF x.status < 200 \/ x.status >= 300
    THEN [ok |-> FALSE, err |-> ErrHTTP, values |-> <<>>]
    ELSE IF ~x.parses
    THEN [ok |-> FALSE, err |-> ErrParse, values |-> <<>>]
    ELSE IF x.envelope.error_code # 0 \/ x.envelope.error_message # ""
    THEN [ok |-> FALSE, err |-> ErrAPI, values |-> <<>>]
    ELSE [ok |-> TRUE, err |-> "", values |-> x.envelope.values]

\* the number of rows in the envelope of a round trip that doRequest
\* accepted; -1 when doRequest returned an error
EnvelopeRows(x) == IF doRequest(x).ok THEN Len(x.envelope.values) ELSE -1

\* what a client call hands back (ok, err, rec, rows), with the remote as the
\* call left it, the request it sent and the rows it got
Result(x, ok, err, rec, rows) ==
    [ok |-> ok, err |-> err, rec |-> rec, rows |-> rows,
     remote |-> x.remote, nextId |-> x.nextId, call |-> x.call,
     got |-> EnvelopeRows(x)]

\* a plausible slip: the empty result is not checked and a zero-valued
\* record is handed back as a success
ClientCreateNoCheck(store, nid, entity, values, h) ==
    LET x == Exchange(store, nid, entity, "create", Params(<<>>, values), h)
        resp == doRequest(x)
    IN IF ~resp.ok THEN Result(x, FALSE, resp.err, NoRecord, <<>>)
       ELSE IF Len(resp.values) = 0 THEN Result(x, TRUE, "", NoRecord, <<>>)
       ELSE Result(x, TRUE, "", resp.values[1], <<>>)

\* Client.Create
ClientCreate(store, nid, entity, values, h) ==
    LET x == Exchange(store, nid, entity, "create", Params(<<>>, values), h)
        resp == doRequest(x)
    IN IF ~resp.ok THEN Result(x, FALSE, resp.err, NoRecord, <<>>)
       ELSE IF Len(resp.values) = 0 THEN Result(x, FALSE, ErrNoCreate, NoRecord, <<>>)
       ELSE Result(x, TRUE, "", resp.values[1], <<>>)

\* Client.Get
ClientGet(store, nid, entity, where, h) ==
    LET x == Exchange(store, nid, entity, "get", Params(where, <<>>), h)
        resp == doRequest(x)
    IN IF ~resp.ok THEN Result(x, FALSE, resp.err, NoRecord, <<>>)
       ELSE Result(x, TRUE, "", NoRecord, resp.values)

\* a plausible slip: the first row is returned without an id filter
GetByIDWhereNone(id) == <<>>

\* the where clause GetByID builds
GetByIDWhere(id) == <<Clause("id", Int64(id))>>

\* a plausible slip: an empty result handed back as a success
ClientGetByIDNoCheck(store, nid, entity, id, h) ==
    LET r == ClientGet(store, nid, entity, GetByIDWhere(id), h)
    IN IF ~r.ok THEN r
       ELSE IF Len(r.rows) = 0 THEN [r EXCEPT !.ok = TRUE, !.err = "", !.rows = <<>>]
       ELSE [r EXCEPT !.rec = r.rows[1], !.rows = <<>>]

\* Client.GetByID
ClientGetByID(store, nid, entity, id, h) ==
    LET r == ClientGet(store, nid, entity, GetByIDWhere(id), h)
    IN IF ~r.ok THEN r
       ELSE IF Len(r.rows) = 0 THEN [r EXCEPT !.ok = FALSE, !.err = ErrNotFound, !.rows = <<>>]
       ELSE [r EXCEPT !.rec = r.rows[1], !.rows = <<>>]

\* a plausible slip: values that are nil are left out of the request, as an
\* encoder that omits empty values would
ClientUpdateDroppingNulls(store, nid, entity, id, values, h) ==
    LET sent == [k \in {f \in DOMAIN values : values[f] # Nil} |-> values[k]]
        x == Exchange(store, nid, entity, "update", Params(<<Clause("id", Int64(id))>>, sent), h)
        resp == doRequest(x)
    IN IF ~resp.ok THEN Result(x, FALSE, resp.err, NoRecord, <<>>)
       ELSE IF Len(resp.values) = 0 THEN Result(x, FALSE, ErrNoUpdate, NoRecord, <<>>)
       ELSE Result(x, TRUE, "", resp.values[1], <<>>)

\* a plausible slip: the update is sent without its where clause
ClientUpdateEverywhere(store, nid, entity, id, values, h) ==
    LET x == Exchange(store, nid, entity, "update", Params(<<>>, values), h)
        resp == doRequest(x)
    IN IF ~resp.ok THEN Result(x, FALSE, resp.err, NoRecord, <<>>)
       ELSE IF Len(resp.values) = 0 THEN Result(x, FALSE, ErrNoUpdate, NoRecord, <<>>)
       ELSE Result(x, TRUE, "", resp.values[1], <<>>)

\* Client.Update
ClientUpdate(store, nid, entity, id, values, h) ==
    LET x == Exchange(store, nid, entity, "update", Params(<<Clause("id", Int64(id))>>, values), h)
        resp == doRequest(x)
    IN IF ~resp.ok THEN Result(x, FALSE, resp.err, NoRecord, <<>>)
       ELSE IF Len(resp.values) = 0 THEN Result(x, FALSE, ErrNoUpdate, NoRecord, <<>>)
       ELSE Result(x, TRUE, "", resp.values[1], <<>>)

\* Client.Delete
ClientDelete(store, nid, entity, id, h) ==
    LET x == Exchange(store, nid, entity, "delete", Params(<<Clause("id", Int64(id))>>, <<>>), h)
        resp == doRequest(x)
    IN Result(x, resp.ok, resp.err, NoRecord, <<>>)

----------------------------------------------------------------------------
(* The client driven directly: any caller, any entity type, any values map *)

\* the remote's records before the provider has done anything: the option
\* groups the remote ships with, no record of any managed entity type
RemoteInit ==
    [e \in EntityTypes |->
        IF e = "OptionGroup"
        THEN (1 :> (("id" :> Float64(1)) @@ ("name" :> Str("gender"))))
             @@ (2 :> (("id" :> Float64(2)) @@ ("name" :> Str("acl_role"))))
        ELSE <<>>]

\* the entity types a run of the client is made with
ClientEntities == {"Group", "OptionValue"}

\* the values maps the callers of this run send
ValueMaps ==
    { ("name" :> Str("a")) @@ ("parent_id" :> Int64(1)),
      ("name" :> Str("b")) @@ ("description" :> Nil) }

\* the provider state of a resource that is not in state
NoState == <<>>

\* the adapter variables of a run that exercises no adapter
AdaptersIdle ==
    /\ state = NoState
    /\ calls = <<>>
    /\ diag = ""
    /\ last = [op |-> "none", plan |-> <<>>, ok |-> FALSE]
    /\ cleared = {}

NoReturn == [op |-> "none", entity |-> "", id |-> 0, ok |-> FALSE, err |-> "",
             rec |-> NoRecord, existed |-> FALSE, rows |-> 0]

NoCreated == [entity |-> "", id |-> 0, values |-> <<>>]

\* what the caller of a client call sees
Returned(op, entity, id, r, existed, rows) ==
    [op |-> op, entity |-> entity, id |-> id, ok |-> r.ok, err |-> r.err,
     rec |-> r.rec, existed |-> existed, rows |-> rows]

InitClient ==
    /\ remote = RemoteInit
    /\ nextId = 1
    /\ ret = NoReturn
    /\ created = NoCreated
    /\ active \in ClientEntities
    /\ hin = <<>>
    /\ hout = <<>>
    /\ AdaptersIdle

CallCreate ==
    \E values \in ValueMaps, h \in Transports :
        /\ nextId <= MaxId
        /\ LET r == ClientCreate(remote, nextId, active, values, h)
           IN /\ remote' = r.remote
              /\ nextId' = r.nextId
              /\ ret' = Returned("Create", active, nextId, r, FALSE, r.got)
              /\ created' = IF r.ok
                            THEN [entity |-> active, id |-> GetInt64(r.rec, "id").v,
                                  values |-> values]
                            ELSE created
        /\ UNCHANGED <<active, helperVars, adapterVars>>

CallGetByID ==
    \E id \in 1..MaxId, h \in Transports :
        /\ LET r == ClientGetByID(remote, nextId, active, id, h)
           IN /\ remote' = r.remote
              /\ nextId' = r.nextId
              /\ ret' = Returned("GetByID", active, id, r,
                                 id \in DOMAIN remote[active], r.got)
        /\ UNCHANGED <<created, active, helperVars, adapterVars>>

CallUpdate ==
    \E id \in 1..MaxId, values \in ValueMaps, h \in Transports :
        /\ LET r == ClientUpdate(remote, nextId, active, id, values, h)
           IN /\ remote' = r.remote
              /\ nextId' = r.nextId
              /\ ret' = Returned("Update", active, id, r,
                                 id \in DOMAIN remote[active], r.got)
              /\ created' = IF created.entity = active /\ created.id = id /\ h.applied
                            THEN NoCreated ELSE created
        /\ UNCHANGED <<active, helperVars, adapterVars>>

CallDelete ==
    \E id \in 1..MaxId, h \in Transports :
        /\ LET r == ClientDelete(remote, nextId, active, id, h)
           IN /\ remote' = r.remote
              /\ nextId' = r.nextId
              /\ ret' = Returned("Delete", active, id, r, id \in DOMAIN remote[active], -1)
              /\ created' = IF created.entity = active /\ created.id = id /\ h.applied
                            THEN NoCreated ELSE created
        /\ UNCHANGED <<active, helperVars, adapterVars>>

NextClient == CallCreate \/ CallGetByID \/ CallUpdate \/ CallDelete

SpecClient == InitClient /\ [][NextClient]_vars

\* C1: a GetByID that succeeds on the id a successful Create returned, with no
\* write to that record in between, returns a record that holds, for every
\* key of the values map sent, the value sent (as it reads after the JSON
\* round trip).
CreateThenGetByIDRoundTrips ==
    (/\ ret.op = "GetByID"
     /\ ret.ok
     /\ created # NoCreated
     /\ ret.entity = created.entity
     /\ ret.id = created.id)
    => \A k \in DOMAIN created.values :
           /\ k \in DOMAIN ret.rec
           /\ ret.rec[k] = JSONValue(created.values[k])

\* a GetByID returned the record of an earlier Create that sent more than one
\* field, among several records of that entity type
CreateThenGetByIDWitness ==
    /\ ret.op = "GetByID"
    /\ ret.ok
    /\ created # NoCreated
    /\ ret.entity = created.entity
    /\ ret.id = created.id
    /\ Cardinality(DOMAIN created.values) = 2
    /\ Cardinality(DOMAIN remote[ret.entity]) = 2
    /\ ret.id = 2

\* C3: GetByID for an id that matches no remote record never succeeds and
\* returns no record; when the request itself went through (an error-free
\* envelope) the error is "not found".
GetByIDMissingIsNotFound ==
    (ret.op = "GetByID" /\ ~ret.existed)
    => /\ ~ret.ok
       /\ ret.rec = NoRecord
       /\ (ret.rows >= 0 => ret.err = ErrNotFound)

\* a GetByID went through to the remote, matched nothing and reported "not found"
GetByIDMissingWitness ==
    /\ ret.op = "GetByID"
    /\ ~ret.existed
    /\ ret.rows = 0
    /\ ret.err = ErrNotFound

\* C4: Create and Update whose envelope is error-free but carries zero rows
\* return an error and no record.
ZeroRowsIsAnError ==
    (ret.op \in {"Create", "Update"} /\ ret.rows = 0)
    => /\ ~ret.ok
       /\ ret.err = (IF ret.op = "Create" THEN ErrNoCreate ELSE ErrNoUpdate)
       /\ ret.rec = NoRecord

\* an Update of an id that matches nothing came back error-free with zero rows
ZeroRowsWitness ==
    /\ ret.op = "Update"
    /\ ret.rows = 0
    /\ ~ret.existed
    /\ ret.err = ErrNoUpdate

----------------------------------------------------------------------------
(* The coercion helpers applied to decoded response maps *)

\* the values json.Unmarshal can put into a response map
WireValues ==
    {Nil, List(<<>>), List(<<"1">>)}
    \cup {Bool(b) : b \in BOOLEAN}
    \cup {Float64(n) : n \in -1..2}
    \cup {Val("float64", FALSE, 2, "", <<"5">>), Val("float64", FALSE, 1, "", <<"5">>)}
    \cup {Str(x) : x \in {"", "0", "1", "true", "false", "TRUE", "yes"}}

HelperKeys == {"is_active", "is_reserved"}

\* the response maps over HelperKeys
WireMaps ==
    UNION {[D -> WireValues] : D \in SUBSET HelperKeys}

NoOutput == [fn |-> "none", b |-> FALSE, n |-> 0, s |-> "", ok |-> FALSE]

InitHelpers ==
    /\ remote = RemoteInit
    /\ nextId = 1
    /\ ret = NoReturn
    /\ created = NoCreated
    /\ active = "helpers"
    /\ hin \in [m : WireMaps, key : HelperKeys]
    /\ hout = NoOutput
    /\ AdaptersIdle

ApplyGetBool ==
    /\ hout = NoOutput
    /\ hout' = [fn |-> "GetBool", b |-> GetBool(hin.m, hin.key).v, n |-> 0, s |-> "",
                ok |-> GetBool(hin.m, hin.key).ok]
    /\ UNCHANGED <<remote, nextId, active, clientVars, hin, adapterVars>>

ApplyGetInt64 ==
    /\ hout = NoOutput
    /\ hout' = [fn |-> "GetInt64", b |-> FALSE, n |-> GetInt64(hin.m, hin.key).v,
                s |-> "", ok |-> GetInt64(hin.m, hin.key).ok]
    /\ UNCHANGED <<remote, nextId, active, clientVars, hin, adapterVars>>

ApplyGetString ==
    /\ hout = NoOutput
    /\ hout' = [fn |-> "GetString", b |-> FALSE, n |-> 0,
                s |-> GetString(hin.m, hin.key).v, ok |-> GetString(hin.m, hin.key).ok]
    /\ UNCHANGED <<remote, nextId, active, clientVars, hin, adapterVars>>

NextHelpers == ApplyGetBool \/ ApplyGetInt64 \/ ApplyGetString

SpecHelpers == InitHelpers /\ [][NextHelpers]_vars

\* the wire values GetBool reads as true
TrueWireValues == {Bool(TRUE), Float64(1), Str("1"), Str("true")}

GetInt64OnlyForIntegers ==
    hout.fn = "GetInt64" =>
        LET present == hin.key \in DOMAIN hin.m
            v == hin.m[hin.key]
        IN /\ hout.ok => (present /\ v.t = "float64" /\ v.l = <<>> /\ hout.n = v.n)
           /\ (present /\ v.t = "float64" /\ v.l # <<>>) => ~hout.ok

----------------------------------------------------------------------------
(* Terraform attribute values (types.String, types.Int64, types.Bool,       *)
(* types.List): null, unknown, or a known value.                           *)

TfNull == Val("null", FALSE, 0, "", <<>>)

TfUnknown == Val("unknown", FALSE, 0, "", <<>>)

\* types.List of strings
TfList(x) == Val("list", FALSE, 0, "", x)

IsNull(a) == a.t = "null"

\* ValueString / ValueBool / ValueInt64: the zero value for null and unknown
ValueString(a) == IF a.t = "string" THEN a.s ELSE ""

ValueBool(a) == IF a.t = "bool" THEN a.b ELSE FALSE

ValueInt64(a) == IF a.t = "int64" THEN a.n ELSE 0

\* a values-map entry that is only set under a condition
Entry(cond, key, value) == IF cond THEN (key :> value) ELSE <<>>

\* if s, ok := GetString(result, key); ok { attr = types.StringValue(s) }
KeepOrString(attr, result, key) ==
    IF GetString(result, key).ok THEN Str(GetString(result, key).v) ELSE attr

\* if b, ok := GetBool(result, key); ok { attr = types.BoolValue(b) }
KeepOrBool(attr, result, key) ==
    IF GetBool(result, key).ok THEN Bool(GetBool(result, key).v) ELSE attr

\* if n, ok := GetInt64(result, key); ok { attr = types.Int64Value(n) }
KeepOrInt64(attr, result, key) ==
    IF GetInt64(result, key).ok THEN Int64(GetInt64(result, key).v) ELSE attr

\* if s, ok := GetString(result, key); ok { StringValue(s) } else { StringNull() }
StringElseNull(result, key) ==
    IF GetString(result, key).ok THEN Str(GetString(result, key).v) ELSE TfNull

\* if s, ok := GetString(result, key); ok && s != "" { StringValue(s) } else { StringNull() }
NonEmptyStringElseNull(result, key) ==
    IF GetString(result, key).ok /\ GetString(result, key).v # ""
    THEN Str(GetString(result, key).v) ELSE TfNull

\* if n, ok := GetInt64(result, key); ok { Int64Value(n) } else { Int64Null() }
Int64ElseNull(result, key) ==
    IF GetInt64(result, key).ok THEN Int64(GetInt64(result, key).v) ELSE TfNull

\* what an adapter operation leaves behind besides the provider state
Outcome(op, plan, ok) == [op |-> op, plan |-> plan, ok |-> ok]

----------------------------------------------------------------------------
(* Group resource *)

\* the plans the orchestrator hands to Create: id unknown, the defaults of
\* is_active and visibility applied, description and group_type optional
GroupPlans ==
    {[id |-> TfUnknown,
      name |-> Str("volunteers"),
      title |-> Str("Volunteers"),
      description |-> d,
      is_active |-> Bool(TRUE),
      visibility |-> Str("User and User Admin Only"),
      group_type |-> g] :
        d \in {TfNull, Str(""), Str("All volunteers")},
        g \in {TfNull, TfList(<<"Access Control">>)}}

\* GroupResource.Create: the values map
GroupCreateValues(plan) ==
    [name |-> Str(ValueString(plan.name)),
     title |-> Str(ValueString(plan.title)),
     is_active |-> Bool(ValueBool(plan.is_active)),
     visibility |-> Str(ValueString(plan.visibility))]
    @@ Entry(~IsNull(plan.description), "description", Str(ValueString(plan.description)))
    @@ Entry(~IsNull(plan.group_type), "group_type", Strings(plan.group_type.l))

\* GroupResource.Create: the state set from the plan and the response
GroupCreateState(plan, result) ==
    [plan EXCEPT
        !.id = KeepOrInt64(plan.id, result, "id"),
        !.name = KeepOrString(plan.name, result, "name"),
        !.title = KeepOrString(plan.title, result, "title"),
        !.description = StringElseNull(result, "description"),
        !.is_active = KeepOrBool(plan.is_active, result, "is_active"),
        !.visibility = KeepOrString(plan.visibility, result, "visibility")]

\* GroupResource.Read: the state set from the prior state and the response
GroupReadState(prior, result) ==
    [prior EXCEPT
        !.name = KeepOrString(prior.name, result, "name"),
        !.title = KeepOrString(prior.title, result, "title"),
        !.description = NonEmptyStringElseNull(result, "description"),
        !.is_active = KeepOrBool(prior.is_active, result, "is_active"),
        !.visibility = KeepOrString(prior.visibility, result, "visibility")]

\* GroupResource.Update: the values map
GroupUpdateValues(plan) ==
    [name |-> Str(ValueString(plan.name)),
     title |-> Str(ValueString(plan.title)),
     is_active |-> Bool(ValueBool(plan.is_active)),
     visibility |-> Str(ValueString(plan.visibility))]
    @@ (IF ~IsNull(plan.description)
        THEN ("description" :> Str(ValueString(plan.description)))
        ELSE ("description" :> Nil))
    @@ Entry(~IsNull(plan.group_type), "group_type", Strings(plan.group_type.l))

\* GroupResource.Update: the state set from the plan, the prior state and the response
GroupUpdateState(plan, prior, result) ==
    [plan EXCEPT
        !.id = prior.id,
        !.name = KeepOrString(plan.name, result, "name"),
        !.title = KeepOrString(plan.title, result, "title"),
        !.description = NonEmptyStringElseNull(result, "description"),
        !.is_active = KeepOrBool(plan.is_active, result, "is_active"),
        !.visibility = KeepOrString(plan.visibility, result, "visibility")]

----------------------------------------------------------------------------
(* ACL Role resource: ACL roles are OptionValues of the option group "acl_role" *)

ErrOptionGroup == "option group not found"

\* Client.GetOptionGroupID: what it makes of the records the lookup returned
OptionGroupID(r) ==
    IF ~r.ok THEN [r EXCEPT !.rows = <<>>] @@ [id |-> 0]
    ELSE IF Len(r.rows) = 0 \/ ~GetInt64(r.rows[1], "id").ok
    THEN [r EXCEPT !.ok = FALSE, !.err = ErrOptionGroup, !.rows = <<>>] @@ [id |-> 0]
    ELSE [r EXCEPT !.rows = <<>>] @@ [id |-> GetInt64(r.rows[1], "id").v]

\* Client.GetOptionGroupID: the numeric id of a named option group, in one
\* client call
GetOptionGroupID(store, nid, name, h) ==
    OptionGroupID(ClientGet(store, nid, "OptionGroup", <<Clause("name", Str(name))>>, h))

\* the plans the orchestrator hands to Create: id and value unknown (computed),
\* weight unknown unless configured, the default of is_active applied
ACLRolePlans ==
    {[id |-> TfUnknown,
      name |-> Str("volunteer_manager"),
      label |-> Str("Volunteer Manager"),
      description |-> d,
      is_active |-> Bool(TRUE),
      weight |-> w,
      value |-> TfUnknown] :
        d \in {TfNull, Str("Can view volunteers")},
        w \in {TfUnknown, Int64(5)}}

\* a plausible slip: the error of the lookup is dropped
ACLRoleLookupIgnored(g) == FALSE

\* ACLRoleResource.Create: whether the option group lookup failed
ACLRoleLookupFailed(g) == ~g.ok

\* ACLRoleResource.Create: the values map
ACLRoleCreateValues(plan, optionGroupID) ==
    [option_group_id |-> Int64(optionGroupID),
     name |-> Str(ValueString(plan.name)),
     label |-> Str(ValueString(plan.label)),
     is_active |-> Bool(ValueBool(plan.is_active))]
    @@ Entry(~IsNull(plan.description), "description", Str(ValueString(plan.description)))
    @@ Entry(~IsNull(plan.weight), "weight", Int64(ValueInt64(plan.weight)))

\* ACLRoleResource.Create: the state set from the plan and the response
ACLRoleCreateState(plan, result) ==
    [plan EXCEPT
        !.id = KeepOrInt64(plan.id, result, "id"),
        !.name = KeepOrString(plan.name, result, "name"),
        !.label = KeepOrString(plan.label, result, "label"),
        !.description = StringElseNull(result, "description"),
        !.is_active = KeepOrBool(plan.is_active, result, "is_active"),
        !.weight = KeepOrInt64(plan.weight, result, "weight"),
        !.value = KeepOrString(plan.value, result, "value")]

\* ACLRoleResource.Read: the state set from the prior state and the response
ACLRoleReadState(prior, result) ==
    [prior EXCEPT
        !.name = KeepOrString(prior.name, result, "name"),
        !.label = KeepOrString(prior.label, result, "label"),
        !.description = NonEmptyStringElseNull(result, "description"),
        !.is_active = KeepOrBool(prior.is_active, result, "is_active"),
        !.weight = KeepOrInt64(prior.weight, result, "weight"),
        !.value = KeepOrString(prior.value, result, "value")]

\* ACLRoleResource.Update: the values map
ACLRoleUpdateValues(plan) ==
    [name |-> Str(ValueString(plan.name)),
     label |-> Str(ValueString(plan.label)),
     is_active |-> Bool(ValueBool(plan.is_active))]
    @@ (IF ~IsNull(plan.description)
        THEN ("description" :> Str(ValueString(plan.description)))
        ELSE ("description" :> Nil))
    @@ Entry(~IsNull(plan.weight), "weight", Int64(ValueInt64(plan.weight)))

\* ACLRoleResource.Update: the state set from the plan, the prior state and the response
ACLRoleUpdateState(plan, prior, result) ==
    [plan EXCEPT
        !.id = prior.id,
        !.name = KeepOrString(plan.name, result, "name"),
        !.label = KeepOrString(plan.label, result, "label"),
        !.description = NonEmptyStringElseNull(result, "description"),
        !.is_active = KeepOrBool(plan.is_active, result, "is_active"),
        !.weight = KeepOrInt64(plan.weight, result, "weight"),
        !.value = KeepOrString(plan.value, result, "value")]

----------------------------------------------------------------------------
(* Contact Type resource *)

\* the plans the orchestrator hands to Create: id unknown, the defaults of
\* is_active and is_reserved applied, the optional attributes null when unset
ContactTypePlans ==
    {[id |-> TfUnknown,
      name |-> Str("Volunteer"),
      label |-> Str("Volunteer"),
      description |-> o.description,
      image_url |-> o.image_url,
      icon |-> o.icon,
      parent_id |-> o.parent_id,
      is_active |-> Bool(TRUE),
      is_reserved |-> Bool(FALSE)] :
        o \in {[description |-> TfNull, image_url |-> TfNull,
                icon |-> TfNull, parent_id |-> TfNull],
               [description |-> Str("Helps out"), image_url |-> Str("v.png"),
                icon |-> Str("fa-hand"), parent_id |-> Int64(1)],
               [description |-> Str(""), image_url |-> TfNull,
                icon |-> Str("fa-hand"), parent_id |-> TfNull]}}

\* ContactTypeResource.Create: the values map
ContactTypeCreateValues(plan) ==
    [name |-> Str(ValueString(plan.name)),
     label |-> Str(ValueString(plan.label)),
     is_active |-> Bool(ValueBool(plan.is_active)),
     is_reserved |-> Bool(ValueBool(plan.is_reserved))]
    @@ Entry(~IsNull(plan.description), "description", Str(ValueString(plan.description)))
    @@ Entry(~IsNull(plan.image_url), "image_URL", Str(ValueString(plan.image_url)))
    @@ Entry(~IsNull(plan.icon), "icon", Str(ValueString(plan.icon)))
    @@ Entry(~IsNull(plan.parent_id), "parent_id", Int64(ValueInt64(plan.parent_id)))

\* ContactTypeResource.Update: the values map
ContactTypeUpdateValues(plan) ==
    [name |-> Str(ValueString(plan.name)),
     label |-> Str(ValueString(plan.label)),
     is_active |-> Bool(ValueBool(plan.is_active)),
     is_reserved |-> Bool(ValueBool(plan.is_reserved)),
     description |-> IF ~IsNull(plan.description)
                     THEN Str(ValueString(plan.description)) ELSE Nil,
     image_URL |-> IF ~IsNull(plan.image_url)
                   THEN Str(ValueString(plan.image_url)) ELSE Nil,
     icon |-> IF ~IsNull(plan.icon) THEN Str(ValueString(plan.icon)) ELSE Nil,
     parent_id |-> IF ~IsNull(plan.parent_id)
                   THEN Int64(ValueInt64(plan.parent_id)) ELSE Nil]

\* ContactTypeResource.mapResponseToModel
ContactTypeMapResponseToModel(result, model) ==
    [model EXCEPT
        !.id = KeepOrInt64(model.id, result, "id"),
        !.name = KeepOrString(model.name, result, "name"),
        !.label = KeepOrString(model.label, result, "label"),
        !.description = NonEmptyStringElseNull(result, "description"),
        !.image_url = NonEmptyStringElseNull(result, "image_URL"),
        !.icon = NonEmptyStringElseNull(result, "icon"),
        !.parent_id = Int64ElseNull(result, "parent_id"),
        !.is_active = KeepOrBool(model.is_active, result, "is_active"),
        !.is_reserved = KeepOrBool(model.is_reserved, result, "is_reserved")]

----------------------------------------------------------------------------
(* Tag resource *)

\* the plans the orchestrator hands to Create: id unknown, label unknown
\* unless configured (optional and computed), the defaults of the flags
\* applied, the optional attributes null when unset
TagPlans ==
    {[id |-> TfUnknown,
      name |-> Str("major_donor"),
      label |-> o.label,
      description |-> o.description,
      parent_id |-> o.parent_id,
      is_selectable |-> Bool(TRUE),
      is_reserved |-> Bool(FALSE),
      is_tagset |-> Bool(FALSE),
      used_for |-> o.used_for,
      color |-> o.color] :
        o \in {[label |-> TfUnknown, description |-> TfNull, parent_id |-> TfNull,
                used_for |-> TfNull, color |-> TfNull],
               [label |-> Str("Major Donor"), description |-> Str("Gives a lot"),
                parent_id |-> Int64(1), used_for |-> TfList(<<"civicrm_contact">>),
                color |-> Str("#ff0000")],
               [label |-> Str("Major Donor"), description |-> TfNull,
                parent_id |-> TfNull, used_for |-> TfList(<<"civicrm_contact">>),
                color |-> TfNull]}}

\* TagResource.Create: the values map
TagCreateValues(plan) ==
    [name |-> Str(ValueString(plan.name)),
     is_selectable |-> Bool(ValueBool(plan.is_selectable)),
     is_reserved |-> Bool(ValueBool(plan.is_reserved)),
     is_tagset |-> Bool(ValueBool(plan.is_tagset))]
    @@ Entry(~IsNull(plan.label), "label", Str(ValueString(plan.label)))
    @@ Entry(~IsNull(plan.description), "description", Str(ValueString(plan.description)))
    @@ Entry(~IsNull(plan.parent_id), "parent_id", Int64(ValueInt64(plan.parent_id)))
    @@ Entry(~IsNull(plan.used_for), "used_for", Strings(plan.used_for.l))
    @@ Entry(~IsNull(plan.color), "color", Str(ValueString(plan.color)))

\* TagResource.Update: the values map
TagUpdateValues(plan) ==
    [name |-> Str(ValueString(plan.name)),
     is_selectable |-> Bool(ValueBool(plan.is_selectable)),
     is_reserved |-> Bool(ValueBool(plan.is_reserved)),
     is_tagset |-> Bool(ValueBool(plan.is_tagset)),
     label |-> IF ~IsNull(plan.label) THEN Str(ValueString(plan.label)) ELSE Nil,
     description |-> IF ~IsNull(plan.description)
                     THEN Str(ValueString(plan.description)) ELSE Nil,
     parent_id |-> IF ~IsNull(plan.parent_id)
                   THEN Int64(ValueInt64(plan.parent_id)) ELSE Nil,
     used_for |-> IF ~IsNull(plan.used_for) THEN Strings(plan.used_for.l) ELSE Nil,
     color |-> IF ~IsNull(plan.color) THEN Str(ValueString(plan.color)) ELSE Nil]

\* a plausible slip: the label is taken from the response as it is
TagMapResponseNoFallback(result, model) ==
    [model EXCEPT
        !.id = KeepOrInt64(model.id, result, "id"),
        !.name = KeepOrString(model.name, result, "name"),
        !.label = KeepOrString(model.label, result, "label"),
        !.description = NonEmptyStringElseNull(result, "description"),
        !.parent_id = Int64ElseNull(result, "parent_id"),
        !.color = NonEmptyStringElseNull(result, "color")]

\* TagResource.mapResponseToModel
TagMapResponseToModel(result, model) ==
    [model EXCEPT
        !.id = KeepOrInt64(model.id, result, "id"),
        !.name = KeepOrString(model.name, result, "name"),
        !.label = IF GetString(result, "label").ok /\ GetString(result, "label").v # ""
                  THEN Str(GetString(result, "label").v)
                  ELSE KeepOrString(model.label, result, "name"),
        !.description = NonEmptyStringElseNull(result, "description"),
        !.parent_id = Int64ElseNull(result, "parent_id"),
        !.is_selectable = KeepOrBool(model.is_selectable, result, "is_selectable"),
        !.is_reserved = KeepOrBool(model.is_reserved, result, "is_reserved"),
        !.is_tagset = KeepOrBool(model.is_tagset, result, "is_tagset"),
        !.used_for = IF /\ "used_for" \in DOMAIN result
                        /\ result["used_for"].t = "[]any"
                        /\ Len(result["used_for"].l) > 0
                     THEN TfList(result["used_for"].l) ELSE TfNull,
        !.color = NonEmptyStringElseNull(result, "color")]

----------------------------------------------------------------------------
(* The resource adapters as the orchestrator drives them: Create for a     *)
(* resource that is not in state, then Read, Update and Delete of the      *)
(* resource in state.                                                      *)

\* a client call as the adapter made it: the request, whether it succeeded
\* and the record it returned
Made(r) == [entity |-> r.call.entity, action |-> r.call.action,
            params |-> r.call.params, ok |-> r.ok, rec |-> r.rec]

\* the wire fields a values map sends as an explicit null, each with the
\* value the remote record held before
Cleared(store, entity, id, values) ==
    {[field |-> k,
      prior |-> IF id \in DOMAIN store[entity] /\ k \in DOMAIN store[entity][id]
                THEN store[entity][id][k] ELSE Nil] :
        k \in {f \in DOMAIN values : values[f] = Nil}}

\* a plausible slip: a client call that failed is made once more
RespondRetrying(op, plan, r, made, title, newState, nulls) ==
    /\ remote' = r.remote
    /\ nextId' = r.nextId
    /\ calls' = IF r.ok THEN made ELSE made \o <<made[Len(made)]>>
    /\ diag' = IF r.ok THEN "" ELSE title
    /\ state' = IF r.ok THEN newState ELSE state
    /\ last' = Outcome(op, plan, r.ok)
    /\ cleared' = nulls
    /\ UNCHANGED <<active, clientVars, helperVars>>

\* a plausible slip: the state is set whether or not the client call failed
RespondWritingOnError(op, plan, r, made, title, newState, nulls) ==
    /\ remote' = r.remote
    /\ nextId' = r.nextId
    /\ calls' = made
    /\ diag' = IF r.ok THEN "" ELSE title
    /\ state' = newState
    /\ last' = Outcome(op, plan, r.ok)
    /\ cleared' = nulls
    /\ UNCHANGED <<active, clientVars, helperVars>>

\* a plausible slip: a Read that failed removes the resource from the state
RespondRemovingOnError(op, plan, r, made, title, newState, nulls) ==
    /\ remote' = r.remote
    /\ nextId' = r.nextId
    /\ calls' = made
    /\ diag' = IF r.ok THEN "" ELSE title
    /\ state' = IF r.ok THEN newState ELSE IF op = "read" THEN NoState ELSE state
    /\ last' = Outcome(op, plan, r.ok)
    /\ cleared' = nulls
    /\ UNCHANGED <<active, clientVars, helperVars>>

\* how an adapter operation ends: on an error of the client a diagnostic is
\* added and the state is left as it was, otherwise the state is set (the
\* framework removes it after a Delete without error)
Respond(op, plan, r, made, title, newState, nulls) ==
    /\ remote' = r.remote
    /\ nextId' = r.nextId
    /\ calls' = made
    /\ diag' = IF r.ok THEN "" ELSE title
    /\ state' = IF r.ok THEN newState ELSE state
    /\ last' = Outcome(op, plan, r.ok)
    /\ cleared' = nulls
    /\ UNCHANGED <<active, clientVars, helperVars>>

\* GroupResource.Create
GroupCreate ==
    \E plan \in GroupPlans, h \in Transports :
        /\ active = "Group"
        /\ state = NoState
        /\ nextId <= MaxId
        /\ \E r \in {ClientCreate(remote, nextId, "Group", GroupCreateValues(plan), h)} :
              Respond("create", plan, r, <<Made(r)>>, "Error creating group",
                      GroupCreateState(plan, r.rec), {})

\* GroupResource.Read
GroupRead ==
    \E h \in Transports :
        /\ active = "Group"
        /\ state # NoState
        /\ \E r \in {ClientGetByID(remote, nextId, "Group", ValueInt64(state.id), h)} :
              Respond("read", state, r, <<Made(r)>>, "Error reading group",
                      GroupReadState(state, r.rec), cleared)

\* GroupResource.Update
GroupUpdate ==
    \E p \in GroupPlans, h \in Transports :
        /\ active = "Group"
        /\ state # NoState
        /\ \E plan \in {[p EXCEPT !.id = state.id]}, id \in {ValueInt64(state.id)} :
           \E r \in {ClientUpdate(remote, nextId, "Group", id, GroupUpdateValues(plan), h)} :
              Respond("update", plan, r, <<Made(r)>>, "Error updating group",
                      GroupUpdateState(plan, state, r.rec),
                      IF r.ok THEN Cleared(remote, "Group", id, GroupUpdateValues(plan)) ELSE {})

\* GroupResource.Delete
GroupDelete ==
    \E h \in Transports :
        /\ active = "Group"
        /\ state # NoState
        /\ \E r \in {ClientDelete(remote, nextId, "Group", ValueInt64(state.id), h)} :
              Respond("delete", state, r, <<Made(r)>>, "Error deleting group",
                      NoState, {})

\* ACLRoleResource.Create
ACLRoleCreate ==
    \E plan \in ACLRolePlans, h1 \in Transports :
        /\ active = "ACLRole"
        /\ state = NoState
        /\ nextId <= MaxId
        /\ \E g \in {GetOptionGroupID(remote, nextId, "acl_role", h1)} :
              IF ACLRoleLookupFailed(g)
              THEN Respond("create", plan, g, <<Made(g)>>,
                           "Error looking up option group", state, {})
              ELSE \E h2 \in Transports :
                   \E r \in {ClientCreate(g.remote, g.nextId, "OptionValue",
                                          ACLRoleCreateValues(plan, g.id), h2)} :
                      Respond("create", plan, r, <<Made(g), Made(r)>>,
                              "Error creating ACL role",
                              ACLRoleCreateState(plan, r.rec), {})

\* ACLRoleResource.Read
ACLRoleRead ==
    \E h \in Transports :
        /\ active = "ACLRole"
        /\ state # NoState
        /\ \E r \in {ClientGetByID(remote, nextId, "OptionValue", ValueInt64(state.id), h)} :
              Respond("read", state, r, <<Made(r)>>, "Error reading ACL role",
                      ACLRoleReadState(state, r.rec), cleared)

\* ACLRoleResource.Update
ACLRoleUpdate ==
    \E p \in ACLRolePlans, h \in Transports :
        /\ active = "ACLRole"
        /\ state # NoState
        /\ \E plan \in {[p EXCEPT !.id = state.id]}, id \in {ValueInt64(state.id)} :
           \E r \in {ClientUpdate(remote, nextId, "OptionValue", id, ACLRoleUpdateValues(plan), h)} :
              Respond("update", plan, r, <<Made(r)>>, "Error updating ACL role",
                      ACLRoleUpdateState(plan, state, r.rec),
                      IF r.ok THEN Cleared(remote, "OptionValue", id, ACLRoleUpdateValues(plan)) ELSE {})

\* ACLRoleResource.Delete
ACLRoleDelete ==
    \E h \in Transports :
        /\ active = "ACLRole"
        /\ state # NoState
        /\ \E r \in {ClientDelete(remote, nextId, "OptionValue", ValueInt64(state.id), h)} :
              Respond("delete", state, r, <<Made(r)>>, "Error deleting ACL role",
                      NoState, {})

\* ContactTypeResource.Create
ContactTypeCreate ==
    \E plan \in ContactTypePlans, h \in Transports :
        /\ active = "ContactType"
        /\ state = NoState
        /\ nextId <= MaxId
        /\ \E r \in {ClientCreate(remote, nextId, "ContactType", ContactTypeCreateValues(plan), h)} :
              Respond("create", plan, r, <<Made(r)>>, "Error creating contact type",
                      ContactTypeMapResponseToModel(r.rec, plan), {})

\* ContactTypeResource.Read
ContactTypeRead ==
    \E h \in Transports :
        /\ active = "ContactType"
        /\ state # NoState
        /\ \E r \in {ClientGetByID(remote, nextId, "ContactType", ValueInt64(state.id), h)} :
              Respond("read", state, r, <<Made(r)>>, "Error reading contact type",
                      ContactTypeMapResponseToModel(r.rec, state), cleared)

\* ContactTypeResource.Update
ContactTypeUpdate ==
    \E p \in ContactTypePlans, h \in Transports :
        /\ active = "ContactType"
        /\ state # NoState
        /\ \E plan \in {[p EXCEPT !.id = state.id]}, id \in {ValueInt64(state.id)} :
           \E r \in {ClientUpdate(remote, nextId, "ContactType", id, ContactTypeUpdateValues(plan), h)} :
              Respond("update", plan, r, <<Made(r)>>, "Error updating contact type",
                      ContactTypeMapResponseToModel(r.rec, plan),
                      IF r.ok THEN Cleared(remote, "ContactType", id, ContactTypeUpdateValues(plan)) ELSE {})

\* ContactTypeResource.Delete
ContactTypeDelete ==
    \E h \in Transports :
        /\ active = "ContactType"
        /\ state # NoState
        /\ \E r \in {ClientDelete(remote, nextId, "ContactType", ValueInt64(state.id), h)} :
              Respond("delete", state, r, <<Made(r)>>, "Error deleting contact type",
                      NoState, {})

\* TagResource.Create
TagCreate ==
    \E plan \in TagPlans, h \in Transports :
        /\ active = "Tag"
        /\ state = NoState
        /\ nextId <= MaxId
        /\ \E r \in {ClientCreate(remote, nextId, "Tag", TagCreateValues(plan), h)} :
              Respond("create", plan, r, <<Made(r)>>, "Error creating tag",
                      TagMapResponseToModel(r.rec, plan), {})

\* TagResource.Read
TagRead ==
    \E h \in Transports :
        /\ active = "Tag"
        /\ state # NoState
        /\ \E r \in {ClientGetByID(remote, nextId, "Tag", ValueInt64(state.id), h)} :
              Respond("read", state, r, <<Made(r)>>, "Error reading tag",
                      TagMapResponseToModel(r.rec, state), cleared)

\* TagResource.Update
TagUpdate ==
    \E p \in TagPlans, h \in Transports :
        /\ active = "Tag"
        /\ state # NoState
        /\ \E plan \in {[p EXCEPT !.id = state.id]}, id \in {ValueInt64(state.id)} :
           \E r \in {ClientUpdate(remote, nextId, "Tag", id, TagUpdateValues(plan), h)} :
              Respond("update", plan, r, <<Made(r)>>, "Error updating tag",
                      TagMapResponseToModel(r.rec, plan),
                      IF r.ok THEN Cleared(remote, "Tag", id, TagUpdateValues(plan)) ELSE {})

\* TagResource.Delete
TagDelete ==
    \E h \in Transports :
        /\ active = "Tag"
        /\ state # NoState
        /\ \E r \in {ClientDelete(remote, nextId, "Tag", ValueInt64(state.id), h)} :
              Respond("delete", state, r, <<Made(r)>>, "Error deleting tag",
                      NoState, {})

\* the resources a run of the adapters is made with
Resources == {"Group", "ACLRole", "ContactType", "Tag"}

InitResources ==
    /\ remote = RemoteInit
    /\ nextId = 1
    /\ ret = NoReturn
    /\ created = NoCreated
    /\ active \in Resources
    /\ hin = <<>>
    /\ hout = <<>>
    /\ AdaptersIdle

NextResources ==
    \/ GroupCreate \/ GroupRead \/ GroupUpdate \/ GroupDelete
    \/ ACLRoleCreate \/ ACLRoleRead \/ ACLRoleUpdate \/ ACLRoleDelete
    \/ ContactTypeCreate \/ ContactTypeRead \/ ContactTypeUpdate \/ ContactTypeDelete
    \/ TagCreate \/ TagRead \/ TagUpdate \/ TagDelete

SpecResources == InitResources /\ [][NextResources]_vars

\* the entity type a resource is stored as
EntityOf(resource) == IF resource = "ACLRole" THEN "OptionValue" ELSE resource

\* the wire field an attribute is sent and read as
WireField(attr) == IF attr = "image_url" THEN "image_URL" ELSE attr

\* the optional attributes of a resource's schema that have no default
OptionalAttributes(resource) ==
    CASE resource = "Group" -> {"description", "group_type"}
      [] resource = "ACLRole" -> {"description", "weight"}
      [] resource = "ContactType" -> {"description", "image_url", "icon", "parent_id"}
      [] resource = "Tag" -> {"label", "description", "parent_id", "used_for", "color"}

\* C2: after an Update that sent a field as an explicit null, and until the
\* next write, every GetByID of the record that succeeds returns the field
\* absent or empty (so never the value it had before), and the state (as the
\* Update wrote it and as every later Read writes it) holds the attribute as
\* null.
ClearedFieldsStayCleared ==
    LET Empty(result, field) ==
            field \notin DOMAIN result \/ result[field] \in {Nil, Str(""), List(<<>>)}
    IN
    \A c \in cleared :
        /\ state # NoState
        /\ \A attr \in DOMAIN state : WireField(attr) = c.field => IsNull(state[attr])
        /\ \A h \in Transports :
              LET r == ClientGetByID(remote, nextId, EntityOf(active),
                                     ValueInt64(state.id), h)
                  g == ClientGet(remote, nextId, EntityOf(active),
                                 GetByIDWhere(ValueInt64(state.id)), h)
              IN /\ h.status = 200 /\ h.parses /\ h.error_code = 0 => r.ok
                 /\ r.ok => Empty(r.rec, c.field)
                 /\ g.ok => \A i \in 1..Len(g.rows) : Empty(g.rows[i], c.field)

\* C2 witness: a Read after an Update that cleared a field the remote held
\* a value for
ClearedFieldsWitness ==
    /\ active = "ContactType"
    /\ last.op = "read"
    /\ last.ok
    /\ \E c \in cleared : c.field = "image_URL" /\ c.prior = Str("v.png")
    /\ \E c \in cleared : c.field = "parent_id" /\ c.prior = Float64(1)

\* C6: creating a Group planned with group_type = ["Access Control"] sends
\* group_type to the remote as the id code ["1"], and the state after Create
\* and after every later Read holds group_type = ["Access Control"].
GroupTypeSentAsCode ==
    (/\ active = "Group"
     /\ last.op \in {"create", "read"}
     /\ last.plan.group_type = TfList(<<"Access Control">>)
     /\ last.ok)
    => /\ state.group_type = TfList(<<"Access Control">>)
       /\ last.op = "create" =>
             /\ "group_type" \in DOMAIN calls[1].params.values
             /\ calls[1].params.values["group_type"] = Strings(<<"1">>)

\* C7: ACL Role Create first looks up the id of option group "acl_role" and
\* then creates an OptionValue whose option_group_id is that id, two client
\* calls in this order; when the lookup fails the Create is never issued and
\* no state is written.
ACLRoleCreateLooksUpFirst ==
    LET ACLRoleOptionGroup ==
            CHOOSE g \in DOMAIN remote["OptionGroup"] :
                remote["OptionGroup"][g]["name"] = Str("acl_role")
    IN
    (active = "ACLRole" /\ last.op = "create")
    => /\ Len(calls) >= 1
       /\ calls[1].entity = "OptionGroup"
       /\ calls[1].action = "get"
       /\ calls[1].params.where = <<Clause("name", Str("acl_role"))>>
       /\ ~calls[1].ok =>
             /\ Len(calls) = 1
             /\ state = NoState
             /\ ~last.ok
             /\ diag = "Error looking up option group"
       /\ calls[1].ok =>
             /\ Len(calls) = 2
             /\ calls[2].entity = "OptionValue"
             /\ calls[2].action = "create"
             /\ calls[2].params.values["option_group_id"] = Int64(ACLRoleOptionGroup)
             /\ last.ok = calls[2].ok
             /\ ~last.ok => state = NoState

\* C7 witness: an ACL Role Create that made both calls and set the state
ACLRoleCreateWitness ==
    /\ active = "ACLRole"
    /\ last.op = "create"
    /\ last.ok
    /\ Len(calls) = 2
    /\ state # NoState
    /\ state.id = Int64(1)

\* C8: every Read of the ACL Role resource sends a where clause that holds
\* the filter option_group_id:name = "acl_role" besides the id filter.
ACLRoleReadFiltersOnOptionGroup ==
    (active = "ACLRole" /\ last.op = "read")
    => /\ Len(calls) = 1
       /\ \E i \in 1..Len(calls[1].params.where) :
             calls[1].params.where[i] = Clause("id", Int64(ValueInt64(state.id)))
       /\ \E i \in 1..Len(calls[1].params.where) :
             calls[1].params.where[i] = Clause("option_group_id:name", Str("acl_role"))

\* C10: an Update whose plan leaves an optional attribute unset sends the
\* attribute's wire field with an explicit null; no optional attribute left
\* unset is missing from the values map of the Update.
UpdateSendsNullForUnset ==
    last.op = "update"
    => \A attr \in OptionalAttributes(active) :
          last.plan[attr].t \in {"null", "unknown"}
          => /\ WireField(attr) \in DOMAIN calls[1].params.values
             /\ calls[1].params.values[WireField(attr)] = Nil


----------------------------------------------------------------------------
(* Data sources: Read builds a where clause from the filters of the        *)
(* configuration, asks the client for the matching records and sets the    *)
(* state from the first one.                                               *)

\* a where clause that is only appended when its filter is configured
Filter(attr, field, value) == IF IsNull(attr) THEN <<>> ELSE <<Clause(field, value)>>

\* GroupDataSource.Read: the where clause
GroupDataWhere(config) ==
    Filter(config.id, "id", Int64(ValueInt64(config.id)))
    \o Filter(config.name, "name", Str(ValueString(config.name)))

\* GroupDataSource.Read: the state set from the configuration and the first result
GroupDataState(config, result) ==
    [config EXCEPT
        !.id = KeepOrInt64(config.id, result, "id"),
        !.name = KeepOrString(config.name, result, "name"),
        !.title = KeepOrString(config.title, result, "title"),
        !.description = NonEmptyStringElseNull(result, "description"),
        !.is_active = KeepOrBool(config.is_active, result, "is_active"),
        !.visibility = KeepOrString(config.visibility, result, "visibility")]

\* ACLDataSource.Read: the where clause
ACLDataWhere(config) ==
    Filter(config.id, "id", Int64(ValueInt64(config.id)))
    \o Filter(config.name, "name", Str(ValueString(config.name)))

\* ACLDataSource.Read: the state set from the configuration and the first result
ACLDataState(config, result) ==
    [config EXCEPT
        !.id = KeepOrInt64(config.id, result, "id"),
        !.name = KeepOrString(config.name, result, "name"),
        !.entity_table = KeepOrString(config.entity_table, result, "entity_table"),
        !.entity_id = KeepOrInt64(config.entity_id, result, "entity_id"),
        !.operation = KeepOrString(config.operation, result, "operation"),
        !.object_table = KeepOrString(config.object_table, result, "object_table"),
        !.object_id = Int64ElseNull(result, "object_id"),
        !.is_active = KeepOrBool(config.is_active, result, "is_active"),
        !.deny = KeepOrBool(config.deny, result, "deny"),
        !.priority = KeepOrInt64(config.priority, result, "priority")]

\* ACLRoleDataSource.Read: the where clause
ACLRoleDataWhere(config) ==
    <<Clause("option_group_id:name", Str("acl_role"))>>
    \o Filter(config.id, "id", Int64(ValueInt64(config.id)))
    \o Filter(config.name, "name", Str(ValueString(config.name)))

\* a plausible slip: the test the other data sources make, which the fixed
\* option group clause defeats
ACLRoleDataNoClause(config) == Len(ACLRoleDataWhere(config)) = 0

\* ACLRoleDataSource.Read: whether the identifying filters are missing
ACLRoleDataMissingFilter(config) == IsNull(config.id) /\ IsNull(config.name)

\* ACLRoleDataSource.Read: the state set from the configuration and the first result
ACLRoleDataState(config, result) ==
    [config EXCEPT
        !.id = KeepOrInt64(config.id, result, "id"),
        !.name = KeepOrString(config.name, result, "name"),
        !.label = KeepOrString(config.label, result, "label"),
        !.description = NonEmptyStringElseNull(result, "description"),
        !.is_active = KeepOrBool(config.is_active, result, "is_active"),
        !.weight = KeepOrInt64(config.weight, result, "weight"),
        !.value = KeepOrString(config.value, result, "value")]

\* ACLEntityRoleDataSource.Read: the where clause
ACLEntityRoleDataWhere(config) ==
    Filter(config.id, "id", Int64(ValueInt64(config.id)))
    \o Filter(config.acl_role_id, "acl_role_id", Int64(ValueInt64(config.acl_role_id)))
    \o Filter(config.entity_table, "entity_table", Str(ValueString(config.entity_table)))
    \o Filter(config.entity_id, "entity_id", Int64(ValueInt64(config.entity_id)))

\* ACLEntityRoleDataSource.Read: whether the identifying filters are missing
ACLEntityRoleDataMissingFilter(config) ==
    LET hasID == ~IsNull(config.id)
        hasCombination == ~IsNull(config.acl_role_id) /\ ~IsNull(config.entity_id)
    IN ~hasID /\ ~hasCombination

\* ACLEntityRoleDataSource.Read: the state set from the configuration and the first result
ACLEntityRoleDataState(config, result) ==
    [config EXCEPT
        !.id = KeepOrInt64(config.id, result, "id"),
        !.acl_role_id = KeepOrInt64(config.acl_role_id, result, "acl_role_id"),
        !.entity_table = KeepOrString(config.entity_table, result, "entity_table"),
        !.entity_id = KeepOrInt64(config.entity_id, result, "entity_id"),
        !.is_active = KeepOrBool(config.is_active, result, "is_active")]

\* the filters a configuration sets: nothing, the id or name of a record the
\* remote holds, or one it does not hold
IdFilters == {TfNull, Int64(1), Int64(2)}

NameFilters(name) == {TfNull, Str(name), Str("nobody")}

GroupDataConfigs ==
    {[id |-> i, name |-> n, title |-> TfNull, description |-> TfNull,
      is_active |-> TfNull, visibility |-> TfNull] :
        i \in IdFilters, n \in NameFilters("volunteers")}

ACLDataConfigs ==
    {[id |-> i, name |-> n, entity_table |-> TfNull, entity_id |-> TfNull,
      operation |-> TfNull, object_table |-> TfNull, object_id |-> TfNull,
      is_active |-> TfNull, deny |-> TfNull, priority |-> TfNull] :
        i \in IdFilters, n \in NameFilters("Edit volunteers")}

ACLRoleDataConfigs ==
    {[id |-> i, name |-> n, label |-> TfNull, description |-> TfNull,
      is_active |-> TfNull, weight |-> TfNull, value |-> TfNull] :
        i \in IdFilters, n \in NameFilters("volunteer_manager")}

ACLEntityRoleDataConfigs ==
    {[id |-> i, acl_role_id |-> a, entity_table |-> t, entity_id |-> e,
      is_active |-> TfNull] :
        i \in {TfNull, Int64(1)}, a \in {TfNull, Int64(1)},
        t \in {TfNull, Str("civicrm_group")}, e \in {TfNull, Int64(1)}}

\* the records a remote holds that the data sources look up; OptionValue 2
\* belongs to another option group than acl_role
RemoteSeeded ==
    [RemoteInit EXCEPT
        !["Group"] =
            1 :> [id |-> Float64(1), name |-> Str("volunteers"),
                  title |-> Str("Volunteers"), description |-> Str(""),
                  is_active |-> Bool(TRUE),
                  visibility |-> Str("User and User Admin Only")],
        !["ACL"] =
            1 :> [id |-> Float64(1), name |-> Str("Edit volunteers"),
                  entity_table |-> Str("civicrm_acl_role"), entity_id |-> Float64(1),
                  operation |-> Str("Edit"), object_table |-> Str("civicrm_group"),
                  object_id |-> Float64(1), is_active |-> Bool(TRUE),
                  deny |-> Bool(FALSE), priority |-> Float64(0)],
        !["OptionValue"] =
            (1 :> [id |-> Float64(1), option_group_id |-> Float64(2),
                   name |-> Str("volunteer_manager"), label |-> Str("Volunteer Manager"),
                   value |-> Str("1"), weight |-> Float64(1), is_active |-> Bool(TRUE)])
            @@ (2 :> [id |-> Float64(2), option_group_id |-> Float64(1),
                      name |-> Str("female"), label |-> Str("Female"),
                      value |-> Str("1"), weight |-> Float64(1), is_active |-> Bool(TRUE)]),
        !["ACLEntityRole"] =
            1 :> [id |-> Float64(1), acl_role_id |-> Float64(1),
                  entity_table |-> Str("civicrm_group"), entity_id |-> Float64(1),
                  is_active |-> Bool(TRUE)]]

\* how a data source Read ends: with "Missing Filter" before any client
\* call, with the error of the client, with no record found, or with the
\* state set from the first record
DataRespond(config, missing, r, titles, newState) ==
    IF missing
    THEN /\ calls' = <<>>
         /\ diag' = "Missing Filter"
         /\ last' = Outcome("data", config, FALSE)
         /\ UNCHANGED <<remote, nextId, state, cleared, active, clientVars, helperVars>>
    ELSE /\ remote' = r.remote
         /\ nextId' = r.nextId
         /\ calls' = <<Made(r)>>
         /\ diag' = IF ~r.ok THEN titles[1]
                    ELSE IF Len(r.rows) = 0 THEN titles[2]
                    ELSE ""
         /\ state' = IF r.ok /\ Len(r.rows) > 0 THEN newState ELSE state
         /\ last' = Outcome("data", config, r.ok /\ Len(r.rows) > 0)
         /\ UNCHANGED <<cleared, active, clientVars, helperVars>>

\* GroupDataSource.Read
GroupDataSourceRead ==
    \E config \in GroupDataConfigs, h \in Transports :
        /\ active = "GroupDataSource"
        /\ \E where \in {GroupDataWhere(config)} :
           \E r \in {ClientGet(remote, nextId, "Group", where, h)} :
              DataRespond(config, Len(where) = 0, r,
                          <<"Error reading group", "Group not found">>,
                          GroupDataState(config, r.rows[1]))

\* ACLDataSource.Read
ACLDataSourceRead ==
    \E config \in ACLDataConfigs, h \in Transports :
        /\ active = "ACLDataSource"
        /\ \E where \in {ACLDataWhere(config)} :
           \E r \in {ClientGet(remote, nextId, "ACL", where, h)} :
              DataRespond(config, Len(where) = 0, r,
                          <<"Error reading ACL", "ACL not found">>,
                          ACLDataState(config, r.rows[1]))

\* ACLRoleDataSource.Read
ACLRoleDataSourceRead ==
    \E config \in ACLRoleDataConfigs, h \in Transports :
        /\ active = "ACLRoleDataSource"
        /\ \E where \in {ACLRoleDataWhere(config)} :
           \E r \in {ClientGet(remote, nextId, "OptionValue", where, h)} :
              DataRespond(config, ACLRoleDataMissingFilter(config), r,
                          <<"Error reading ACL role", "ACL role not found">>,
                          ACLRoleDataState(config, r.rows[1]))

\* ACLEntityRoleDataSource.Read
ACLEntityRoleDataSourceRead ==
    \E config \in ACLEntityRoleDataConfigs, h \in Transports :
        /\ active = "ACLEntityRoleDataSource"
        /\ \E where \in {ACLEntityRoleDataWhere(config)} :
           \E r \in {ClientGet(remote, nextId, "ACLEntityRole", where, h)} :
              DataRespond(config, ACLEntityRoleDataMissingFilter(config), r,
                          <<"Error reading ACL entity role", "ACL entity role not found">>,
                          ACLEntityRoleDataState(config, r.rows[1]))

\* the data sources a run is made with
DataSources == {"GroupDataSource", "ACLDataSource", "ACLRoleDataSource",
                "ACLEntityRoleDataSource"}

InitDataSources ==
    /\ remote \in {RemoteInit, RemoteSeeded}
    /\ nextId = MaxId + 1
    /\ ret = NoReturn
    /\ created = NoCreated
    /\ active \in DataSources
    /\ hin = <<>>
    /\ hout = <<>>
    /\ AdaptersIdle

NextDataSources ==
    \/ GroupDataSourceRead \/ ACLDataSourceRead
    \/ ACLRoleDataSourceRead \/ ACLEntityRoleDataSourceRead

SpecDataSources == InitDataSources /\ [][NextDataSources]_vars

\* C9: a data source Read whose configuration lacks the identifying filters
\* reports "Missing Filter", writes no state and issues no client call.
MissingFilterFailsFast ==
    [][LET FiltersMissing(source, config) ==
               IF source = "ACLEntityRoleDataSource"
               THEN /\ IsNull(config.id)
                    /\ ~(~IsNull(config.acl_role_id) /\ ~IsNull(config.entity_id))
               ELSE IsNull(config.id) /\ IsNull(config.name)
       IN (last'.op = "data" /\ FiltersMissing(active, last'.plan))
          => /\ diag' = "Missing Filter"
             /\ calls' = <<>>
             /\ state' = state
             /\ remote' = remote
             /\ ~last'.ok]_vars

\* C9 witness: an ACL Entity Role lookup by acl_role_id alone, rejected
\* with the state of an earlier lookup left in place
MissingFilterWitness ==
    /\ active = "ACLEntityRoleDataSource"
    /\ last.op = "data"
    /\ diag = "Missing Filter"
    /\ calls = <<>>
    /\ ~IsNull(last.plan.acl_role_id)
    /\ IsNull(last.plan.entity_id)
    /\ state # NoState

----------------------------------------------------------------------------
(* ImportState: the external identifier, a string given as its sequence of *)
(* characters, is parsed with strconv.ParseInt(req.ID, 10, 64) and set as   *)
(* the id, the only attribute of the imported state.                        *)

\* the longest identifier drawn character by character
MaxImportLen == 3

\* the identifiers an import is tried with: every string of up to
\* MaxImportLen characters over a few digits, the signs and a letter, and
\* the identifiers around the limits of int64
ImportIDs ==
    UNION {[1..n -> {"0", "1", "9", "-", "+", "x"}] : n \in 0..MaxImportLen}
    \cup {MaxInt64, <<"-">> \o MaxInt64,
          SubSeq(MaxInt64, 1, 18) \o <<"8">>,
          <<"-">> \o SubSeq(MaxInt64, 1, 18) \o <<"8">>,
          <<"-">> \o SubSeq(MaxInt64, 1, 18) \o <<"9">>,
          <<"0">> \o MaxInt64}

\* resp.State.SetAttribute(ctx, path.Root("id"), id) on the empty state of
\* an import: the id, every other attribute of the schema null
Imported(plans, id) ==
    [a \in DOMAIN (CHOOSE p \in plans : TRUE) |-> IF a = "id" THEN id ELSE TfNull]

\* how ImportState ends
ImportRespond(s, plans) ==
    /\ state = NoState
    /\ state' = IF ParseInt(s).ok THEN Imported(plans, ParseInt(s).id) ELSE state
    /\ diag' = IF ParseInt(s).ok THEN "" ELSE "Invalid import ID"
    /\ calls' = <<>>
    /\ last' = Outcome("import", s, ParseInt(s).ok)
    /\ UNCHANGED <<remote, nextId, cleared, active, clientVars, helperVars>>

\* GroupResource.ImportState
GroupImportState ==
    \E s \in ImportIDs : active = "Group" /\ ImportRespond(s, GroupPlans)

\* ACLRoleResource.ImportState
ACLRoleImportState ==
    \E s \in ImportIDs : active = "ACLRole" /\ ImportRespond(s, ACLRolePlans)

\* ContactTypeResource.ImportState
ContactTypeImportState ==
    \E s \in ImportIDs : active = "ContactType" /\ ImportRespond(s, ContactTypePlans)

\* TagResource.ImportState
TagImportState ==
    \E s \in ImportIDs : active = "Tag" /\ ImportRespond(s, TagPlans)

NextImport ==
    \/ GroupImportState \/ ACLRoleImportState
    \/ ContactTypeImportState \/ TagImportState

SpecImport == InitResources /\ [][NextImport]_vars

\* C11: ImportState accepts the identifier exactly when it is a base-10
\* integer within int64 (an optional sign, then decimal digits only); then
\* the state holds that integer as id and every other attribute null; on a
\* parse failure 'Invalid import ID' is reported and no attribute is set.
ImportStateParsesID ==
    last.op = "import" =>
        LET s == last.plan
            body == IF s # <<>> /\ s[1] \in {"+", "-"} THEN Tail(s) ELSE s
            allDigits == body # <<>> /\ \A i \in 1..Len(body) :
                             body[i] \in {"0", "1", "2", "3", "4", "5", "6", "7", "8", "9"}
            \* the identifiers of ImportIDs that are decimal integers outside int64
            outside == {SubSeq(MaxInt64, 1, 18) \o <<"8">>,
                        <<"-">> \o SubSeq(MaxInt64, 1, 18) \o <<"9">>}
            short == [x \in {<<"0">>, <<"1">>, <<"9">>, <<"-", "1">>, <<"+", "1">>,
                             <<"1", "0">>, <<"0", "1">>, <<"-", "0">>, <<"1", "9">>,
                             <<"-", "1", "9">>, <<"9", "0", "1">>, <<"+", "0", "9">>} |->
                         CASE x = <<"0">> -> 0 [] x = <<"1">> -> 1 [] x = <<"9">> -> 9
                           [] x = <<"-", "1">> -> -1 [] x = <<"+", "1">> -> 1
                           [] x = <<"1", "0">> -> 10 [] x = <<"0", "1">> -> 1
                           [] x = <<"-", "0">> -> 0 [] x = <<"1", "9">> -> 19
                           [] x = <<"-", "1", "9">> -> -19
                           [] x = <<"9", "0", "1">> -> 901
                           [] x = <<"+", "0", "9">> -> 9]
        IN /\ last.ok <=> (allDigits /\ s \notin outside)
           /\ calls = <<>>
           /\ last.ok =>
                 /\ diag = ""
                 /\ state # NoState
                 /\ state.id.t = "int64"
                 /\ \A a \in DOMAIN state : a # "id" => state[a] = TfNull
                 /\ s \in DOMAIN short => state.id = Int64(short[s])
                 /\ s = MaxInt64 => state.id = Val("int64", FALSE, 0, "", MaxInt64)
                 /\ s = <<"0">> \o MaxInt64 => state.id = Val("int64", FALSE, 0, "", MaxInt64)
           /\ ~last.ok => diag = "Invalid import ID" /\ state = NoState

\* C11 witness: the smallest int64 imported as the id of a contact type
ImportStateWitness ==
    /\ active = "ContactType"
    /\ last.op = "import"
    /\ last.ok
    /\ last.plan = <<"-">> \o SubSeq(MaxInt64, 1, 18) \o <<"8">>
    /\ state.id.b
    /\ state.name = TfNull

----------------------------------------------------------------------------
(* Properties of what the resource adapters store and send.                *)

\* C13: after a Tag Create, Read or Update that succeeded on a response whose
\* label is absent or empty while its name is present, the label in state is
\* the name of the response.
TagLabelFallsBackToName ==
    (active = "Tag" /\ last.ok /\ last.op \in {"create", "read", "update"})
    => LET result == calls[1].rec
       IN (/\ "label" \notin DOMAIN result \/ result["label"] = Str("")
           /\ "name" \in DOMAIN result
           /\ result["name"].t = "string")
          => state.label = result["name"]

\* a Tag was created without a label: the response carried the empty label
\* and the label in state is the name
TagLabelWitness ==
    /\ active = "Tag"
    /\ last.ok
    /\ last.op = "create"
    /\ last.plan.label = TfUnknown
    /\ "label" \in DOMAIN calls[1].rec
    /\ calls[1].rec["label"] = Str("")
    /\ state.label = Str("major_donor")

\* C15: the values map a Create sends holds an entry for every optional
\* attribute the plan sets, under its wire name, and no entry for an
\* optional attribute the plan leaves unset (null, or unknown for an
\* attribute that is computed as well).
CreateSendsExactlySetAttributes ==
    last.op = "create"
    => \A i \in 1..Len(calls) :
          calls[i].action = "create"
          => \A attr \in OptionalAttributes(active) :
                WireField(attr) \in DOMAIN calls[i].params.values
                <=> last.plan[attr].t \notin {"null", "unknown"}

\* C16: after a successful Read every attribute whose wire field the response
\* carries (with a value, not null or empty) holds the response's value in
\* state: the number, string or boolean itself, and for a list an entry for
\* each element.
ReadReflectsResponse ==
    (last.op = "read" /\ last.ok)
    => LET result == calls[1].rec
           Holds(a, v) ==
               CASE v.t = "float64" -> a = Int64(v.n)
                 [] v.t = "string" -> a = Str(v.s)
                 [] v.t = "bool" -> a = Bool(v.b)
                 [] v.t = "[]any" -> a.t = "list" /\ Len(a.l) = Len(v.l)
                 [] OTHER -> TRUE
       IN \A attr \in DOMAIN state :
             (/\ WireField(attr) \in DOMAIN result
              /\ result[WireField(attr)] \notin {Nil, Str(""), List(<<>>)})
             => Holds(state[attr], result[WireField(attr)])

\* C17: after a successful Read every attribute without a default or
\* fallback (so not a flag, the visibility or a tag's label) whose wire field
\* is absent from the response, or is the empty string there, is null in
\* state: it is neither the empty string nor the value the state held before.
ReadNormalisesAbsentToNull ==
    (last.op = "read" /\ last.ok)
    => LET result == calls[1].rec
           defaulted == {"is_active", "is_reserved", "is_selectable", "is_tagset",
                         "visibility"}
                        \cup (IF active = "Tag" THEN {"label"} ELSE {})
       IN \A attr \in DOMAIN state \ defaulted :
             (\/ WireField(attr) \notin DOMAIN result
              \/ result[WireField(attr)] = Str(""))
             => state[attr] = TfNull

\* the resources and the data sources together
SpecAdapters ==
    (InitResources \/ InitDataSources) /\ [][NextResources \/ NextDataSources]_vars

\* C18 (as stated): every Create, Read, Update, Delete and data source Read
\* issues exactly one client call, an ACL role Create two (one when its first
\* call fails).
OneCallAsStated ==
    last.op \in {"create", "read", "update", "delete", "data"}
    => Len(calls) = IF active = "ACLRole" /\ last.op = "create" /\ calls[1].ok
                    THEN 2 ELSE 1

\* C18 (amended): a data source Read that lacks its filters issues no client
\* call; every other operation issues exactly one, an ACL role Create a
\* second one after its lookup succeeded. No call follows a call that
\* failed, no request is issued twice, and a failed call makes the operation
\* end with an error diagnostic.
OneCallPerOperation ==
    last.op \in {"create", "read", "update", "delete", "data"}
    => /\ Len(calls) = IF last.op = "data" /\ diag = "Missing Filter" THEN 0
                       ELSE IF active = "ACLRole" /\ last.op = "create" /\ calls[1].ok
                       THEN 2 ELSE 1
       /\ \A i \in 1..Len(calls) :
             ~calls[i].ok => (i = Len(calls) /\ ~last.ok /\ diag # "")
       /\ \A i, j \in 1..Len(calls) :
             i < j => [entity |-> calls[i].entity, action |-> calls[i].action,
                       params |-> calls[i].params]
                      # [entity |-> calls[j].entity, action |-> calls[j].action,
                         params |-> calls[j].params]

\* an Update of a tag whose only client call failed and was not repeated
OneCallWitness ==
    /\ active = "Tag"
    /\ last.op = "update"
    /\ ~last.ok
    /\ Len(calls) = 1
    /\ ~calls[1].ok
    /\ calls[1].action = "update"
    /\ diag = "Error updating tag"

\* C20 (as stated): a Create, Update or Delete that reports success has
\* affected exactly one remote record (created it, written the record of the
\* state's id, deleted it), and one that reports an error has left the
\* remote as it was.
WritesAreAllOrNothing ==
    [][last'.op \in {"create", "update", "delete"}
       => LET before == remote[EntityOf(active)]
              after == remote'[EntityOf(active)]
              id == ValueInt64(last'.plan.id)
          IN IF ~last'.ok THEN remote' = remote
             ELSE CASE last'.op = "create" ->
                         /\ Cardinality(DOMAIN after \ DOMAIN before) = 1
                         /\ \A i \in DOMAIN before : i \in DOMAIN after /\ after[i] = before[i]
                    [] last'.op = "update" ->
                         /\ id \in DOMAIN before
                         /\ DOMAIN after = DOMAIN before
                         /\ \A i \in DOMAIN before \ {id} : after[i] = before[i]
                    [] OTHER ->
                         /\ id \in DOMAIN before
                         /\ DOMAIN after = DOMAIN before \ {id}
                         /\ \A i \in DOMAIN after : after[i] = before[i]]_vars

\* C20 (amended): a Create or Update that reports success has affected
\* exactly one remote record; a Create, Update or Delete that reports an
\* error, and a Delete that reports success, has affected at most one: the
\* record a Create adds, the record of the state's id otherwise. No other
\* record and no record of another entity type is touched.
WritesAffectAtMostOne ==
    [][last'.op \in {"create", "update", "delete"}
       => LET before == remote[EntityOf(active)]
              after == remote'[EntityOf(active)]
              id == ValueInt64(last'.plan.id)
          IN /\ \A e \in EntityTypes \ {EntityOf(active)} : remote'[e] = remote[e]
             /\ CASE last'.op = "create" ->
                       /\ DOMAIN after \ DOMAIN before \subseteq {nextId}
                       /\ last'.ok => nextId \in DOMAIN after \ DOMAIN before
                       /\ \A i \in DOMAIN before : i \in DOMAIN after /\ after[i] = before[i]
                  [] last'.op = "update" ->
                       /\ last'.ok => id \in DOMAIN before
                       /\ DOMAIN after = DOMAIN before
                       /\ \A i \in DOMAIN before \ {id} : after[i] = before[i]
                  [] OTHER ->
                       /\ DOMAIN before \ {id} \subseteq DOMAIN after
                       /\ DOMAIN after \subseteq DOMAIN before
                       /\ \A i \in DOMAIN after : after[i] = before[i]]_vars

\* a Create reported an error although the remote had created the record,
\* which the state does not hold
WritesWitness ==
    /\ active = "Tag"
    /\ last.op = "create"
    /\ ~last.ok
    /\ diag = "Error creating tag"
    /\ state = NoState
    /\ 1 \in DOMAIN remote["Tag"]

\* C22: a Read that succeeds right after a Create that succeeded leaves every
\* attribute the plan of the Create configured (neither null nor unknown) at
\* its value in the plan, the empty string and a list included.
CreateThenReadConverges ==
    [][(last.op = "create" /\ last.ok /\ last'.op = "read" /\ last'.ok)
       => \A attr \in DOMAIN last.plan :
             last.plan[attr].t \notin {"null", "unknown"}
             => state'[attr] = last.plan[attr]]_vars

\* C23: a Read that succeeds right after a Create that succeeded, on the same
\* record, leaves the state as the Create wrote it.
ReadAfterCreateChangesNothing ==
    [][(/\ last.op = "create" /\ last.ok
        /\ last'.op = "read" /\ last'.ok
        /\ calls'[1].rec = calls[Len(calls)].rec)
       => state' = state]_vars

\* C26: a Create, Read, Update or Delete one of whose client calls returned
\* an error ends with an error diagnostic and leaves the state as it was
\* before the operation.
FailedOperationWritesNothing ==
    [][(/\ last'.op \in {"create", "read", "update", "delete"}
        /\ \E i \in 1..Len(calls') : ~calls'[i].ok)
       => /\ diag' # ""
          /\ ~last'.ok
          /\ state' = state]_vars

\* a Delete of a contact type failed and the resource is still in state
FailedOperationWitness ==
    /\ active = "ContactType"
    /\ last.op = "delete"
    /\ ~last.ok
    /\ ~calls[1].ok
    /\ diag = "Error deleting contact type"
    /\ state # NoState

\* C27: a Read of a resource whose remote record is gone ends with an error
\* diagnostic and leaves the state, resource included, as it was; so does
\* every later Read for as long as no record has the id.
ReadOfDeletedKeepsState ==
    [][(/\ last'.op = "read"
        /\ ValueInt64(state.id) \notin DOMAIN remote[EntityOf(active)])
       => /\ ~last'.ok
          /\ diag' # ""
          /\ state' = state
          /\ state' # NoState]_vars

\* a group whose record was deleted while the Delete reported an error was
\* read: the Read failed and the group is still in state
ReadOfDeletedWitness ==
    /\ active = "Group"
    /\ last.op = "read"
    /\ ~last.ok
    /\ diag = "Error reading group"
    /\ state # NoState
    /\ ValueInt64(state.id) \notin DOMAIN remote["Group"]

----------------------------------------------------------------------------
(* The provider: Configure resolves the base URL and the API key and makes *)
(* the client available to the resources and data sources.                 *)

\* NewClient: the base URL loses one trailing slash (strings.TrimSuffix,
\* tabulated over the URLs of ProviderInputs)
NewClient(baseURL, apiKey, insecure) ==
    [baseURL |-> IF baseURL = "https://crm.example.org/"
                 THEN "https://crm.example.org" ELSE baseURL,
     apiKey |-> apiKey,
     insecure |-> insecure]

\* the configurations (each attribute optional: null, unknown or known) and
\* environments (os.Getenv yields "" for a variable that is not set)
ProviderInputs ==
    [config : [url : {TfNull, TfUnknown, Str(""), Str("https://crm.example.org"),
                      Str("https://crm.example.org/")},
               api_key : {TfNull, TfUnknown, Str(""), Str("secret")},
               insecure : {TfNull, Bool(TRUE)}],
     env : [CIVICRM_URL : {"", "https://env.example.org"},
            CIVICRM_API_KEY : {"", "envsecret"}]]

\* a plausible slip: the environment variable wins over the attribute
ResolveEnvFirst(attr, env) ==
    IF env # "" THEN env ELSE ValueString(attr)

\* url := os.Getenv(...); if !config.URL.IsNull() { url = config.URL.ValueString() }
Resolve(attr, env) ==
    IF ~IsNull(attr) THEN ValueString(attr) ELSE env

\* the response of a Configure that has not run: no diagnostics, no client
\* (resp.ResourceData and resp.DataSourceData nil)
NoClient == [diags |-> <<>>, client |-> <<>>]

\* CiviCRMProvider.Configure
Configure ==
    /\ active = "provider"
    /\ hout = NoClient
    /\ \E unknown \in {(IF hin.config.url = TfUnknown
                        THEN <<"Unknown CiviCRM URL">> ELSE <<>>)
                       \o (IF hin.config.api_key = TfUnknown
                           THEN <<"Unknown CiviCRM API Key">> ELSE <<>>)},
          url \in {Resolve(hin.config.url, hin.env.CIVICRM_URL)},
          apiKey \in {Resolve(hin.config.api_key, hin.env.CIVICRM_API_KEY)} :
          \E missing \in {(IF url = "" THEN <<"Missing CiviCRM URL">> ELSE <<>>)
                           \o (IF apiKey = ""
                               THEN <<"Missing CiviCRM API Key">> ELSE <<>>)} :
             hout' = IF unknown # <<>> THEN [diags |-> unknown, client |-> <<>>]
                     ELSE IF missing # <<>> THEN [diags |-> missing, client |-> <<>>]
                     ELSE [diags |-> <<>>,
                           client |-> NewClient(url, apiKey,
                                                IF ~IsNull(hin.config.insecure)
                                                THEN ValueBool(hin.config.insecure)
                                                ELSE FALSE)]
    /\ UNCHANGED <<remote, nextId, active, clientVars, hin, adapterVars>>

InitProvider ==
    /\ remote = RemoteInit
    /\ nextId = 1
    /\ ret = NoReturn
    /\ created = NoCreated
    /\ active = "provider"
    /\ hin \in ProviderInputs
    /\ hout = NoClient
    /\ AdaptersIdle

SpecProvider == InitProvider /\ [][Configure]_vars

\* C14: Configure takes the url and the api key each from the configuration
\* attribute when it is not null and otherwise from CIVICRM_URL /
\* CIVICRM_API_KEY; the client it makes available holds these values; when
\* the resolved url or api key is empty it reports an error and makes no
\* client available.
ConfigureResolves ==
    (active = "provider" /\ hout # NoClient) =>
        LET url == IF hin.config.url # TfNull
                   THEN hin.config.url.s ELSE hin.env.CIVICRM_URL
            apiKey == IF hin.config.api_key # TfNull
                      THEN hin.config.api_key.s ELSE hin.env.CIVICRM_API_KEY
        IN /\ (url = "" \/ apiKey = "") => (hout.diags # <<>> /\ hout.client = <<>>)
           /\ hout.client # <<>> =>
                /\ hout.diags = <<>>
                /\ hout.client.apiKey = apiKey
                /\ hout.client.baseURL = IF url = "https://crm.example.org/"
                                         THEN "https://crm.example.org" ELSE url
           /\ hout.diags = <<>> <=> hout.client # <<>>

\* the url was configured and the api key came from the environment although
\* CIVICRM_URL was set as well: the client holds the configured url
ConfigureWitness ==
    /\ active = "provider"
    /\ hin.config.url = Str("https://crm.example.org")
    /\ hin.config.api_key = TfNull
    /\ hin.env.CIVICRM_URL = "https://env.example.org"
    /\ hin.env.CIVICRM_API_KEY = "envsecret"
    /\ hout.client # <<>>
    /\ hout.client.baseURL = "https://crm.example.org"
    /\ hout.client.apiKey = "envsecret"

----------------------------------------------------------------------------
(* doRequest on its own, over HTTP responses of every kind.                *)

\* the HTTP responses doRequest is handed: statuses on both sides of the
\* bounds of 200..299, a body that parses as the envelope or does not, and
\* the error fields of the envelope
HTTPResponses ==
    [status : {199, 200, 204, 299, 300, 404, 500},
     parses : BOOLEAN,
     envelope : [error_code : {-1, 0, 1},
                 error_message : {"", "denied"},
                 values : {<<>>, <<[id |-> Float64(1)]>>}]]

\* doRequest, applied once to the response in hin
ApplyDoRequest ==
    /\ active = "doRequest"
    /\ hout = NoOutput
    /\ hout' = doRequest(hin)
    /\ UNCHANGED <<remote, nextId, active, clientVars, hin, adapterVars>>

InitRequest ==
    /\ remote = RemoteInit
    /\ nextId = 1
    /\ ret = NoReturn
    /\ created = NoCreated
    /\ active = "doRequest"
    /\ hin \in HTTPResponses
    /\ hout = NoOutput
    /\ AdaptersIdle

SpecRequest == InitRequest /\ [][ApplyDoRequest]_vars

\* C19: doRequest returns a response exactly when the status is in 200..299,
\* the body parses, error_code is 0 and error_message is empty; otherwise it
\* returns an error and no response, and for a status outside 200..299 the
\* error is the HTTP-status error whatever the body holds.
ResponseIffClean ==
    (active = "doRequest" /\ hout # NoOutput)
    => /\ hout.ok <=> (/\ hin.status \in 200..299
                       /\ hin.parses
                       /\ hin.envelope.error_code = 0
                       /\ hin.envelope.error_message = "")
       /\ hout.ok => (hout.err = "" /\ hout.values = hin.envelope.values)
       /\ ~hout.ok => (hout.err # "" /\ hout.values = <<>>)
       /\ hin.status \notin 200..299 => hout.err = ErrHTTP

\* a 404 whose body is a parseable envelope with an error code and message
\* was reported as the HTTP-status error
ResponseIffCleanWitness ==
    /\ active = "doRequest"
    /\ hin.status = 404
    /\ hin.parses
    /\ hin.envelope.error_code = 1
    /\ hin.envelope.error_message = "denied"
    /\ hout # NoOutput
    /\ ~hout.ok
    /\ hout.err = ErrHTTP

----------------------------------------------------------------------------
(* Mail Settings resource *)

\* the plans the orchestrator hands to Create: id unknown, domain_id unknown
\* unless configured (optional and computed), the defaults of the flags
\* applied, the optional attributes null when unset
MailSettingsPlans ==
    {[id |-> TfUnknown,
      domain_id |-> o.domain_id,
      name |-> Str("inbound"),
      is_default |-> Bool(FALSE),
      is_ssl |-> Bool(FALSE),
      is_non_case_email_skipped |-> Bool(FALSE),
      is_contact_creation_disabled_if_no_match |-> Bool(FALSE),
      is_active |-> Bool(TRUE),
      domain |-> o.server,
      localpart |-> TfNull,
      return_path |-> TfNull,
      protocol |-> TfNull,
      server |-> o.server,
      port |-> o.port,
      username |-> o.username,
      password |-> o.password,
      source |-> TfNull,
      activity_status |-> TfNull,
      activity_type_id |-> TfNull,
      campaign_id |-> TfNull,
      activity_source |-> TfNull,
      activity_targets |-> TfNull,
      activity_assignees |-> TfNull] :
        o \in {[domain_id |-> TfUnknown, server |-> TfNull, port |-> TfNull,
                username |-> TfNull, password |-> TfNull],
               [domain_id |-> Int64(1), server |-> Str("mail.example.org"),
                port |-> Int64(993), username |-> Str("crm"),
                password |-> Str("secret")],
               [domain_id |-> TfUnknown, server |-> Str("mail.example.org"),
                port |-> TfNull, username |-> Str("crm"), password |-> Str("")]}}

\* MailSettingsResource.Create: the values map
MailSettingsCreateValues(plan) ==
    [name |-> Str(ValueString(plan.name)),
     is_default |-> Bool(ValueBool(plan.is_default)),
     is_ssl |-> Bool(ValueBool(plan.is_ssl)),
     is_non_case_email_skipped |-> Bool(ValueBool(plan.is_non_case_email_skipped)),
     is_contact_creation_disabled_if_no_match |->
         Bool(ValueBool(plan.is_contact_creation_disabled_if_no_match)),
     is_active |-> Bool(ValueBool(plan.is_active))]
    @@ Entry(~IsNull(plan.domain_id), "domain_id", Int64(ValueInt64(plan.domain_id)))
    @@ Entry(~IsNull(plan.port), "port", Int64(ValueInt64(plan.port)))
    @@ Entry(~IsNull(plan.activity_type_id), "activity_type_id", Int64(ValueInt64(plan.activity_type_id)))
    @@ Entry(~IsNull(plan.campaign_id), "campaign_id", Int64(ValueInt64(plan.campaign_id)))
    @@ Entry(~IsNull(plan.domain), "domain", Str(ValueString(plan.domain)))
    @@ Entry(~IsNull(plan.localpart), "localpart", Str(ValueString(plan.localpart)))
    @@ Entry(~IsNull(plan.return_path), "return_path", Str(ValueString(plan.return_path)))
    @@ Entry(~IsNull(plan.protocol), "protocol", Str(ValueString(plan.protocol)))
    @@ Entry(~IsNull(plan.server), "server", Str(ValueString(plan.server)))
    @@ Entry(~IsNull(plan.username), "username", Str(ValueString(plan.username)))
    @@ Entry(~IsNull(plan.password), "password", Str(ValueString(plan.password)))
    @@ Entry(~IsNull(plan.source), "source", Str(ValueString(plan.source)))
    @@ Entry(~IsNull(plan.activity_status), "activity_status", Str(ValueString(plan.activity_status)))
    @@ Entry(~IsNull(plan.activity_source), "activity_source", Str(ValueString(plan.activity_source)))
    @@ Entry(~IsNull(plan.activity_targets), "activity_targets", Str(ValueString(plan.activity_targets)))
    @@ Entry(~IsNull(plan.activity_assignees), "activity_assignees", Str(ValueString(plan.activity_assignees)))

\* a plausible slip: the password is read back like the username
MailSettingsMapResponseWithPassword(result, model) ==
    [model EXCEPT
        !.id = KeepOrInt64(model.id, result, "id"),
        !.domain_id = KeepOrInt64(model.domain_id, result, "domain_id"),
        !.name = KeepOrString(model.name, result, "name"),
        !.is_default = KeepOrBool(model.is_default, result, "is_default"),
        !.is_ssl = KeepOrBool(model.is_ssl, result, "is_ssl"),
        !.is_non_case_email_skipped = KeepOrBool(model.is_non_case_email_skipped, result, "is_non_case_email_skipped"),
        !.is_contact_creation_disabled_if_no_match = KeepOrBool(model.is_contact_creation_disabled_if_no_match, result, "is_contact_creation_disabled_if_no_match"),
        !.is_active = KeepOrBool(model.is_active, result, "is_active"),
        !.domain = NonEmptyStringElseNull(result, "domain"),
        !.localpart = NonEmptyStringElseNull(result, "localpart"),
        !.return_path = NonEmptyStringElseNull(result, "return_path"),
        !.protocol = NonEmptyStringElseNull(result, "protocol"),
        !.server = NonEmptyStringElseNull(result, "server"),
        !.username = NonEmptyStringElseNull(result, "username"),
        !.source = NonEmptyStringElseNull(result, "source"),
        !.activity_status = NonEmptyStringElseNull(result, "activity_status"),
        !.activity_source = NonEmptyStringElseNull(result, "activity_source"),
        !.activity_targets = NonEmptyStringElseNull(result, "activity_targets"),
        !.activity_assignees = NonEmptyStringElseNull(result, "activity_assignees"),
        !.password = NonEmptyStringElseNull(result, "password"),
        !.port = Int64ElseNull(result, "port"),
        !.activity_type_id = Int64ElseNull(result, "activity_type_id"),
        !.campaign_id = Int64ElseNull(result, "campaign_id")]

\* MailSettingsResource.mapResponseToModel
MailSettingsMapResponseToModel(result, model) ==
    [model EXCEPT
        !.id = KeepOrInt64(model.id, result, "id"),
        !.domain_id = KeepOrInt64(model.domain_id, result, "domain_id"),
        !.name = KeepOrString(model.name, result, "name"),
        !.is_default = KeepOrBool(model.is_default, result, "is_default"),
        !.is_ssl = KeepOrBool(model.is_ssl, result, "is_ssl"),
        !.is_non_case_email_skipped = KeepOrBool(model.is_non_case_email_skipped, result, "is_non_case_email_skipped"),
        !.is_contact_creation_disabled_if_no_match = KeepOrBool(model.is_contact_creation_disabled_if_no_match, result, "is_contact_creation_disabled_if_no_match"),
        !.is_active = KeepOrBool(model.is_active, result, "is_active"),
        !.domain = NonEmptyStringElseNull(result, "domain"),
        !.localpart = NonEmptyStringElseNull(result, "localpart"),
        !.return_path = NonEmptyStringElseNull(result, "return_path"),
        !.protocol = NonEmptyStringElseNull(result, "protocol"),
        !.server = NonEmptyStringElseNull(result, "server"),
        !.username = NonEmptyStringElseNull(result, "username"),
        !.source = NonEmptyStringElseNull(result, "source"),
        !.activity_status = NonEmptyStringElseNull(result, "activity_status"),
        !.activity_source = NonEmptyStringElseNull(result, "activity_source"),
        !.activity_targets = NonEmptyStringElseNull(result, "activity_targets"),
        !.activity_assignees = NonEmptyStringElseNull(result, "activity_assignees"),
        !.port = Int64ElseNull(result, "port"),
        !.activity_type_id = Int64ElseNull(result, "activity_type_id"),
        !.campaign_id = Int64ElseNull(result, "campaign_id")]

----------------------------------------------------------------------------
(* The state an adapter writes from a response, over response records of   *)
(* every kind: with and without an id, the id of the record asked for or   *)
(* another one, a number or a numeric string.                              *)

\* the state Create, Read or Update of a resource sets from the plan (Create,
\* Update) or the prior state (Read), the prior state and the response record
MapResponse(resource, op, model, prior, result) ==
    CASE resource = "Group" ->
            (CASE op = "create" -> GroupCreateState(model, result)
               [] op = "read" -> GroupReadState(model, result)
               [] OTHER -> GroupUpdateState(model, prior, result))
      [] resource = "ACLRole" ->
            (CASE op = "create" -> ACLRoleCreateState(model, result)
               [] op = "read" -> ACLRoleReadState(model, result)
               [] OTHER -> ACLRoleUpdateState(model, prior, result))
      [] resource = "ContactType" ->
            ContactTypeMapResponseToModel(
                result, IF op = "update" THEN [model EXCEPT !.id = prior.id] ELSE model)
      [] resource = "MailSettings" ->
            MailSettingsMapResponseToModel(
                result, IF op = "update" THEN [model EXCEPT !.id = prior.id] ELSE model)
      [] OTHER ->
            TagMapResponseToModel(
                result, IF op = "update" THEN [model EXCEPT !.id = prior.id] ELSE model)

\* the adapter's mapping, applied once to the response in hin
ApplyMapResponse ==
    /\ active \in Resources \cup {"MailSettings"}
    /\ hout = NoOutput
    /\ hout' = [state |-> MapResponse(active, hin.op, hin.model, hin.prior, hin.result)]
    /\ UNCHANGED <<remote, nextId, active, clientVars, hin, adapterVars>>

\* a plan and a response to a Create, or a state of id 1 (what an earlier
\* Create or Read left: nothing unknown), with a plan for an Update, and a
\* response. The response holds what the plan's Create sent, as the remote
\* returns it, with the id and the description (for mail settings, the
\* password) varied.
InitResponses ==
    /\ remote = RemoteInit
    /\ nextId = 1
    /\ ret = NoReturn
    /\ created = NoCreated
    /\ active \in Resources \cup {"MailSettings"}
    /\ LET plans == CASE active = "Group" -> GroupPlans
                      [] active = "ACLRole" -> ACLRolePlans
                      [] active = "ContactType" -> ContactTypePlans
                      [] active = "MailSettings" -> MailSettingsPlans
                      [] OTHER -> TagPlans
           Sent(plan) == CASE active = "Group" -> GroupCreateValues(plan)
                           [] active = "ACLRole" -> ACLRoleCreateValues(plan, 2)
                           [] active = "ContactType" -> ContactTypeCreateValues(plan)
                           [] active = "MailSettings" -> MailSettingsCreateValues(plan)
                           [] OTHER -> TagCreateValues(plan)
           Known(a, v) == IF v # TfUnknown THEN v
                          ELSE IF a \in {"id", "weight", "domain_id"} THEN Int64(1)
                          ELSE Str("1")
           State(plan) == [a \in DOMAIN plan |-> Known(a, plan[a])]
           Records(values) ==
               {i @@ d @@ [k \in DOMAIN values \ {"id", "description", "password"} |->
                              JSONValue(values[k])] :
                   i \in {<<>>, "id" :> Float64(1), "id" :> Float64(2), "id" :> Str("1")},
                   d \in IF active = "MailSettings"
                         THEN {<<>>, "password" :> Str(""), "password" :> Str("secret"),
                               "password" :> Str("********")}
                         ELSE {<<>>, "description" :> Str(""),
                               "description" :> Str("Gives a lot")}}
       IN \E plan \in plans, op \in {"create", "read", "update"} :
             hin \in [op : {op},
                      model : {IF op = "read" THEN State(plan) ELSE plan},
                      prior : {IF op = "create" THEN NoState ELSE State(plan)},
                      result : Records(Sent(plan))]
    /\ hout = NoOutput
    /\ AdaptersIdle

SpecResponses == InitResponses /\ [][ApplyMapResponse]_vars

\* C21: a Read or an Update leaves the id of the state as it was, whatever
\* id the response record carries.
IdIsImmutable ==
    (active \in Resources \cup {"MailSettings"} /\ hout # NoOutput
     /\ hin.op \in {"read", "update"})
    => hout.state.id = hin.prior.id

\* C25: the state a Create writes from the response record holds a known
\* id, the id of the record when the record carries a number.
CreateStoresKnownId ==
    (active \in Resources \cup {"MailSettings"} /\ hout # NoOutput /\ hin.op = "create")
    => /\ hout.state.id.t = "int64"
       /\ ("id" \in DOMAIN hin.result /\ hin.result["id"].t = "float64")
             => hout.state.id = Int64(hin.result["id"].n)

\* C28: whatever password the response carries, the state Create and Update
\* of mail settings write holds the password of the plan, and the state Read
\* writes holds the password of the prior state.
PasswordNeverReadBack ==
    (active = "MailSettings" /\ hout # NoOutput)
    => hout.state.password = hin.model.password

\* a Read whose response carried a masked password left the password of the
\* prior state in place
PasswordWitness ==
    /\ active = "MailSettings"
    /\ hout # NoOutput
    /\ hin.op = "read"
    /\ hin.prior.password = Str("secret")
    /\ "password" \in DOMAIN hin.result
    /\ hin.result["password"] = Str("********")
    /\ hout.state.password = Str("secret")

----------------------------------------------------------------------------
(* An ACL role taken over by ImportState, on a remote that holds option    *)
(* values of more than one option group.                                   *)

\* the remote holds the ACL role 1 and the option value 9 of the option
\* group "gender"; the state is what ImportState wrote for the id 1 or 9
InitImported ==
    /\ remote = [RemoteInit EXCEPT
                    !["OptionValue"] =
                        (1 :> [id |-> Float64(1), option_group_id |-> Float64(2),
                               name |-> Str("volunteer_manager"),
                               label |-> Str("Volunteer Manager"), value |-> Str("1"),
                               weight |-> Float64(1), is_active |-> Bool(TRUE)])
                        @@ (9 :> [id |-> Float64(9), option_group_id |-> Float64(1),
                                  name |-> Str("female"), label |-> Str("Female"),
                                  value |-> Str("1"), weight |-> Float64(1),
                                  is_active |-> Bool(TRUE)])]
    /\ nextId = MaxId + 1
    /\ ret = NoReturn
    /\ created = NoCreated
    /\ active = "ACLRole"
    /\ hin = <<>>
    /\ hout = <<>>
    /\ \E s \in {<<"1">>, <<"9">>} :
          /\ state = Imported(ACLRolePlans, ParseInt(s).id)
          /\ last = Outcome("import", s, TRUE)
    /\ calls = <<>>
    /\ diag = ""
    /\ cleared = {}

SpecImported == InitImported /\ [][ACLRoleRead \/ ACLRoleUpdate \/ ACLRoleDelete]_vars

\* C24: Read, Update and Delete of an ACL role, whatever id the state holds,
\* leave every option value of another option group than "acl_role" (option
\* group 2) as it is, and a Read that succeeds has not returned one.
ACLRoleStaysInOptionGroup ==
    [][(active = "ACLRole" /\ last'.op \in {"read", "update", "delete"})
       => LET values == remote["OptionValue"]
              others == {i \in DOMAIN values : values[i]["option_group_id"] # Float64(2)}
          IN /\ \A i \in others :
                   /\ i \in DOMAIN remote'["OptionValue"]
                   /\ remote'["OptionValue"][i] = values[i]
             /\ (last'.op = "read" /\ last'.ok)
                   => ValueInt64(last'.plan.id) \notin others]_vars

----------------------------------------------------------------------------
(* The conversion of group types between names and id codes, checked on    *)
(* its own over lists of names                                             *)

MaxTypes == 3

\* a plausible slip: a name outside the table is passed on as it is
convertGroupTypesToIDsKeepingUnknown(names) ==
    LET groupTypeNameToID == ("Access Control" :> "1") @@ ("Mailing List" :> "2")
        ids[i \in 0..Len(names)] ==
            IF i = 0 THEN <<>>
            ELSE IF names[i] \in DOMAIN groupTypeNameToID
                 THEN Append(ids[i - 1], groupTypeNameToID[names[i]])
                 ELSE Append(ids[i - 1], names[i])
    IN ids[Len(names)]

\* convertGroupTypesToIDs: for each name in order, the id of the table is
\* appended when the name is a key of groupTypeNameToID
convertGroupTypesToIDs(names) ==
    LET groupTypeNameToID == ("Access Control" :> "1") @@ ("Mailing List" :> "2")
        ids[i \in 0..Len(names)] ==
            IF i = 0 THEN <<>>
            ELSE IF names[i] \in DOMAIN groupTypeNameToID
                 THEN Append(ids[i - 1], groupTypeNameToID[names[i]])
                 ELSE ids[i - 1]
    IN ids[Len(names)]

\* convertGroupTypeIDsToNames: likewise with groupTypeIDToName
convertGroupTypeIDsToNames(ids) ==
    LET groupTypeIDToName == ("1" :> "Access Control") @@ ("2" :> "Mailing List")
        names[i \in 0..Len(ids)] ==
            IF i = 0 THEN <<>>
            ELSE IF ids[i] \in DOMAIN groupTypeIDToName
                 THEN Append(names[i - 1], groupTypeIDToName[ids[i]])
                 ELSE names[i - 1]
    IN names[Len(ids)]

\* the lists of group-type names of a configuration: names of the table,
\* other names, and names that read like an id code
InitGroupTypes ==
    /\ remote = RemoteInit
    /\ nextId = 1
    /\ ret = NoReturn
    /\ created = NoCreated
    /\ active = "group_type"
    /\ hin \in UNION {[1..k -> {"Access Control", "Mailing List", "Smart Group", "1", ""}] :
                       k \in 0..MaxTypes}
    /\ hout = NoOutput
    /\ AdaptersIdle

\* the names are converted to ids as Create sends them and the ids back to
\* names as Read stores them
ApplyConvert ==
    /\ active = "group_type"
    /\ hout = NoOutput
    /\ \E ids \in {convertGroupTypesToIDs(hin)} :
          hout' = [ids |-> ids, names |-> convertGroupTypeIDsToNames(ids)]
    /\ UNCHANGED <<remote, nextId, active, clientVars, hin, adapterVars>>

SpecGroupTypes == InitGroupTypes /\ [][ApplyConvert]_vars

\* C29: converting a list of names to ids and back yields the list with the
\* names outside {"Access Control", "Mailing List"} removed and the order of
\* the others kept; the result is the list itself exactly when every name is
\* in the table; a name outside the table is dropped, the conversion has no
\* error outcome.
GroupTypeRoundTrip ==
    (active = "group_type" /\ hout # NoOutput)
    => LET InTable(n) == n \in {"Access Control", "Mailing List"}
       IN /\ hout.names = SelectSeq(hin, InTable)
          /\ Len(hout.ids) = Len(hout.names)
          /\ (hout.names = hin) <=> (\A i \in 1..Len(hin) : InTable(hin[i]))

\* a list with a name outside the table between two names of the table came
\* back without it, in order
GroupTypeRoundTripWitness ==
    /\ active = "group_type"
    /\ hout # NoOutput
    /\ hin = <<"Mailing List", "Smart Group", "Access Control">>
    /\ hout.ids = <<"2", "1">>
    /\ hout.names = <<"Mailing List", "Access Control">>

====
